---- MODULE Spec2Model ----
(***************************************************************************)
(* Registry cell (tokio RwLock<RaindexProvider>), the admin hot swap       *)
(* (PUT /admin/registry), the readers (GET /registry, POST                 *)
(* /v1/swap/calldata) and the worker-thread bridge (RaindexProvider::load, *)
(* run_with_client) of the st0x REST gateway; the guards a request passes  *)
(* before its handler runs (rate limits, authentication, admin gate,       *)
(* validation); the request-id fairing; the error responder and the        *)
(* bodies of the swap and order handlers.                                  *)
(***************************************************************************)
EXTENDS Integers, Sequences, FiniteSets, TLC

\* Number of HTTP requests in one run; each request slot is used once.
NumReqs == 2

Reqs == 1..NumReqs

\* URL the server was started with (main.rs seeds the cell with its provider).
InitUrl == "u0"

\* Registry URLs whose fetch and parse succeed (DotrainRegistry::new is Ok).
\* "u2" loads, but its settings are invalid, so no client can be derived
\* from it (test_helpers::mock_invalid_raindex_config).
GoodUrls == {"u1", "u2"}

\* An unreachable or malformed registry: DotrainRegistry::new is Err.
BadUrls == {"bad"}

\* Bodies of PUT /admin/registry: registry_url may also be the empty string.
Bodies == {""} \cup BadUrls \cup GoodUrls

Creds == {"admin", "user"}

VARIABLES
    pc,        \* position of each request's handler task
    kind,      \* "get" | "call" | "deploy" | "put" once the request arrived
    cred,      \* the authenticated principal's role
    body,      \* registry_url of a PUT body
    resp,      \* the response sent: [status, url, val, err, msg]
    cell,      \* the RaindexProvider inside the RwLock
    readers,   \* requests holding a shared guard
    writer,    \* the request holding the exclusive guard: {} or {r}
    waitq,     \* FIFO of requests waiting for the lock
    settings,  \* settings table, key registry_url
    db,        \* outcome of a PUT's set_setting: "none" | "ok" | "err"
    wk,        \* worker thread of a request's bridge call
    chan,      \* one-shot channel of that call: [tag, val, reg]
    wreg,      \* registry handle moved into the worker (NoReg when none)
    runs,      \* how many times the closure of the call was invoked
    lastPut,   \* the PUT whose overwrite of the cell is the latest: {} or {p}
    seen,      \* lastPut at the moment the request arrived
    acc        \* which kind of thread touched a registry handle, and how

\* The registry cell, its requests and their bridge calls.
bridgeVars == <<pc, kind, cred, body, resp, cell, readers, writer, waitq,
                settings, db, wk, chan, wreg, runs, lastPut, seen, acc>>

VARIABLES
    limits,    \* the RateLimiter's capacities: [global, perKey], per minute
    now,       \* the clock the rate limiter reads, in clock ticks
    global,    \* the global bucket: [tokens, last]
    perKey,    \* the per-credential buckets, by key-id: [made, tokens, last]
    gpc,       \* how far each request is through its guards
    route,     \* the endpoint the request is for
    authz,     \* its Authorization header: [key, secret]
    payload,   \* its body or path parameter: "ok" | "bad"
    out,       \* its response: [status, retry_after]
    trail,     \* the stages that ran for it, in order
    spent,     \* the buckets a token of which it removed
    tally      \* per bucket, since the clock last moved: [k, n, a]

\* The request pipeline in front of the handlers.
pipeVars == <<limits, now, global, perKey, gpc, route, authz, payload, out, trail,
              spent, tally>>

VARIABLES
    idpc,      \* the request-id fairing: "start" | "cached" | "stamped"
    reqId,     \* the X-Request-Id header of the request (NoHeader if absent)
    metaId,    \* RequestMeta.request_id in the request's local cache
    respId     \* the X-Request-Id header of the response

\* The request-id fairing.
idVars == <<idpc, reqId, metaId, respId>>

\* The route handlers' bodies, each run on its own with the engine's
\* answers as inputs.
VARIABLES
    called,     \* the function that ran last
    arg,        \* its inputs: the request and what the engine answers
    ret,        \* the response Rocket renders from what it returned
    did         \* the calls it made on the engine, in order

handlerVars == <<called, arg, ret, did>>

vars == <<bridgeVars, pipeVars, idVars, handlerVars>>

----------------------------------------------------------------------------
\* Data

\* DotrainRegistry loaded from url u.
Registry(u) == [source |-> u,
                settings |-> IF u = "u2" THEN "invalid" ELSE "valid"]

\* RaindexProvider { registry }
Provider(u) == [registry |-> Registry(u)]

\* The cell's memory while `*guard = new_provider` is half done: the old
\* value is dropped and the new one is not yet moved in.
Torn == [registry |-> [source |-> "", settings |-> "partial"]]

\* RaindexProvider::registry_url
registry_url(p) == p.registry.source

\* DotrainRegistry::get_raindex_client succeeds only on valid settings.
ClientDerivable(reg) == reg.settings = "valid"

NoReg == [source |-> "", settings |-> "none"]

NoResp == [status |-> 0, url |-> "", val |-> {}, err |-> "", msg |-> ""]

\* tokio::sync::oneshot::channel(): nothing sent, both ends alive.
EmptyChan == [tag |-> "empty", val |-> {}, reg |-> ""]

Msg(tag, val, reg) == [tag |-> tag, val |-> val, reg |-> reg]

\* The value the closure of request r returns (each closure's own).
ClosureValue(r) == {r}

Bridged == {"call", "deploy"}

TypeOK ==
    /\ pc \in [Reqs -> {"idle", "lock", "await", "loading", "persisting",
                        "writing", "done", "cancelled"}]
    /\ kind \in [Reqs -> {"none", "get", "call", "deploy", "put"}]
    /\ cred \in [Reqs -> Creds]
    /\ body \in [Reqs -> Bodies]
    /\ readers \subseteq Reqs
    /\ writer \subseteq Reqs /\ Cardinality(writer) <= 1
    /\ settings \in {InitUrl} \cup GoodUrls
    /\ db \in [Reqs -> {"none", "ok", "err"}]
    /\ wk \in [Reqs -> {"none", "spawned", "running", "hung", "exited"}]
    /\ runs \in [Reqs -> 0..2]
    /\ lastPut \subseteq Reqs

----------------------------------------------------------------------------
\* The request pipeline: data

\* rate_limit_global_rpm and rate_limit_per_key_rpm of the configuration:
\* one where the global limit is the tighter one, one where the key's is.
Configs == {[global |-> 1, perKey |-> 2], [global |-> 2, perKey |-> 1]}

\* The configuration the server of the other parts of the model runs with.
DefaultConfig == [global |-> 1, perKey |-> 2]

\* A bucket of capacity C refills at C tokens per 60 seconds. The clock has
\* TicksPerSecond ticks to the second. Tokens are real-valued; they are
\* kept here in units of which Whole make one token and of which a bucket
\* of capacity C gains C per clock tick, so that every amount is an integer.
SecondsPerMinute == 60

TicksPerSecond == 2

Whole == SecondsPerMinute * TicksPerSecond

\* The clock moves in steps of TickLen clock ticks, MaxTicks times at most.
TickLen == 41

MaxTicks == 3

Min(a, b) == IF a <= b THEN a ELSE b

\* ceil(a / b) for a >= 0, b > 0
CeilDiv(a, b) == (a + b - 1) \div b

\* A bucket starts full.
NewBucket(cap, t) == [tokens |-> cap * Whole, last |-> t]

\* tokens = min(capacity, tokens + (t - last) * capacity/60), last = t
Refill(b, cap, t) ==
    [tokens |-> Min(cap * Whole, b.tokens + (t - b.last) * cap), last |-> t]

\* A refill that does not cap the tokens at the capacity.
CheckUncapped(b, cap, t) ==
    LET f == [tokens |-> b.tokens + (t - b.last) * cap, last |-> t]
    IN  IF f.tokens >= Whole
        THEN [bucket |-> [f EXCEPT !.tokens = @ - Whole], admit |-> TRUE,
              retry_after |-> 0]
        ELSE [bucket |-> f, admit |-> FALSE,
              retry_after |-> CeilDiv(Whole - f.tokens, cap * TicksPerSecond)]

\* An admission that takes no token.
CheckWithoutDecrement(b, cap, t) ==
    LET f == Refill(b, cap, t)
    IN  IF f.tokens >= Whole
        THEN [bucket |-> f, admit |-> TRUE, retry_after |-> 0]
        ELSE [bucket |-> f, admit |-> FALSE,
              retry_after |-> CeilDiv(Whole - f.tokens, cap * TicksPerSecond)]

\* A check that rounds the wait down.
CheckRoundingDown(b, cap, t) ==
    LET f == Refill(b, cap, t)
    IN  IF f.tokens >= Whole
        THEN [bucket |-> [f EXCEPT !.tokens = @ - Whole], admit |-> TRUE,
              retry_after |-> 0]
        ELSE [bucket |-> f, admit |-> FALSE,
              retry_after |-> (Whole - f.tokens) \div (cap * TicksPerSecond)]

\* One check of a bucket at time t: refill, then admit and take one token
\* when a whole token is there, else reject with
\* retry_after = ceil((1 - tokens) / (capacity/60)).
Check(b, cap, t) ==
    LET f == Refill(b, cap, t)
    IN  IF f.tokens >= Whole
        THEN [bucket |-> [f EXCEPT !.tokens = @ - Whole], admit |-> TRUE,
              retry_after |-> 0]
        ELSE [bucket |-> f, admit |-> FALSE,
              retry_after |-> CeilDiv(Whole - f.tokens, cap * TicksPerSecond)]

\* Key-ids a request can name: a user's key, an admin's key, an inactive
\* key and one the credential store does not hold.
KeyIds == {"ku", "ka", "ki", "kx"}

ActiveKeys == {"ku", "ka"}

AdminKeys == {"ka"}

NoAuth == [key |-> "", secret |-> ""]

\* Authorization headers: none, each key-id with its secret, and the
\* user's key with a wrong secret.
AuthHeaders ==
    {NoAuth} \cup {[key |-> k, secret |-> "good"] : k \in KeyIds}
             \cup {[key |-> "ku", secret |-> "bad"]}

\* The verifier: the key-id is in the store and active, and the secret
\* matches its hash.
Verify(h) == h.key \in ActiveKeys /\ h.secret = "good"

is_admin(h) == h.key \in AdminKeys

Routes == {"health", "registry", "cancel", "admin"}

\* Handlers whose signature starts with `_global: GlobalRateLimit`.
GlobalGuardInSignature == {"cancel", "admin"}

\* GET /health: subject to the global rate limit, not authenticated.
HealthRoutes == {"health"}

HasGlobalGuard(rt) == rt \in GlobalGuardInSignature \cup HealthRoutes

\* Handlers whose signature has an AuthenticatedKey or AdminKey guard.
NeedsAuth(rt) == rt \in {"registry", "cancel", "admin"}

\* Handlers guarded by AdminKey.
AdminOnly(rt) == rt = "admin"

\* Handlers with a body (a data guard, which Rocket runs after every
\* request guard).
HasPayload(rt) == rt \in {"cancel", "admin"}

\* Handlers that call into the engine: run_with_client, load.
CallsEngine(rt) == rt \in {"cancel", "admin"}

\* The requests that come in: per route, the Authorization headers and
\* bodies sent to it.
Requests ==
    {[route |-> "health", authz |-> NoAuth, payload |-> "ok"]}
    \cup {[route |-> "registry", authz |-> h, payload |-> "ok"] :
             h \in {NoAuth, [key |-> "ku", secret |-> "good"]}}
    \cup {[route |-> "cancel", authz |-> [key |-> "ku", secret |-> "good"],
           payload |-> p] : p \in {"ok", "bad"}}
    \cup {[route |-> "cancel", authz |-> h, payload |-> "bad"] :
             h \in AuthHeaders \ {[key |-> k, secret |-> "good"] : k \in ActiveKeys}}
    \cup {[route |-> "admin", authz |-> [key |-> "ka", secret |-> "good"],
           payload |-> p] : p \in {"ok", "bad"}}
    \cup {[route |-> "admin", authz |-> [key |-> "ku", secret |-> "good"],
           payload |-> "bad"]}

NoBucket == [made |-> FALSE, tokens |-> 0, last |-> 0]

NoOut == [status |-> 0, retry_after |-> 0]

\* Rocket runs the request guards in the order of the handler's
\* signature, the data guard after them, then the handler's body.
FirstGuard(rt) ==
    IF HasGlobalGuard(rt) THEN "global"
    ELSE IF NeedsAuth(rt) THEN "auth" ELSE "handler"

AfterGlobal(rt) == IF NeedsAuth(rt) THEN "auth" ELSE "handler"

Buckets == {"global"} \cup KeyIds

\* Since the clock last moved, for one bucket: the whole tokens k it held,
\* refilled, at the first check, the checks n made and the checks a
\* admitted. f is the bucket as refilled at the check, c the check's result.
NoTally == [k |-> 0, n |-> 0, a |-> 0]

Tally(ty, f, c) ==
    [k |-> IF ty.n = 0 THEN f.tokens \div Whole ELSE ty.k,
     n |-> ty.n + 1,
     a |-> ty.a + (IF c.admit THEN 1 ELSE 0)]

\* The pipeline at startup: RateLimiter::new(global_rpm, per_key_rpm), no
\* per-key entry yet, no request.
PipelineStart(cfg) ==
    /\ limits = cfg
    /\ now = 0
    /\ global = NewBucket(cfg.global, 0)
    /\ perKey = [k \in KeyIds |-> NoBucket]
    /\ gpc = [r \in Reqs |-> "idle"]
    /\ route = [r \in Reqs |-> "health"]
    /\ authz = [r \in Reqs |-> NoAuth]
    /\ payload = [r \in Reqs |-> "ok"]
    /\ out = [r \in Reqs |-> NoOut]
    /\ trail = [r \in Reqs |-> <<>>]
    /\ spent = [r \in Reqs |-> {}]
    /\ tally = [b \in Buckets |-> NoTally]

----------------------------------------------------------------------------
\* The request-id fairing: data

\* The longest request id that is echoed, in bytes.
MaxIdLen == 128

\* How many runs of equal characters a header value is made of, at most.
MaxRuns == 3

\* A header value is a sequence of runs [c, n]: n characters of class c.
\*   "print"  a printable ASCII character other than the space
\*   "space"  the ASCII space: white space, not a control character
\*   "tab"    \t, \n, \r: ASCII, white space and control character
\*   "nul"    \0, DEL: ASCII control character, not white space
\*   "accent" a two-byte character such as U+00E9: not ASCII
\*   "nbsp"   U+00A0: two bytes, not ASCII, white space
CharClasses == {"print", "space", "tab", "nul", "accent", "nbsp"}

RunLengths == {1, MaxIdLen}

Runs == [c : CharClasses, n : RunLengths]

HeaderValues == UNION {[1..k -> Runs] : k \in 0..MaxRuns}

NoHeader == [present |-> FALSE, value |-> <<>>]

RequestHeaders == {NoHeader} \cup {[present |-> TRUE, value |-> v] : v \in HeaderValues}

\* char::is_whitespace, char::is_control, char::is_ascii, char::len_utf8
IsWhitespace(c) == c \in {"space", "tab", "nbsp"}

IsControl(c) == c \in {"tab", "nul"}

IsAscii(c) == c \notin {"accent", "nbsp"}

Utf8Len(c) == IF IsAscii(c) THEN 1 ELSE 2

\* str::len: the length in bytes
RECURSIVE len(_)
len(v) == IF v = <<>> THEN 0 ELSE Head(v).n * Utf8Len(Head(v).c) + len(Tail(v))

\* str::trim: leading and trailing white space removed
RECURSIVE trim_start(_)
trim_start(v) ==
    IF v = <<>> THEN v
    ELSE IF IsWhitespace(Head(v).c) THEN trim_start(Tail(v)) ELSE v

RECURSIVE trim_end(_)
trim_end(v) ==
    IF v = <<>> THEN v
    ELSE IF IsWhitespace(v[Len(v)].c) THEN trim_end(SubSeq(v, 1, Len(v) - 1))
    ELSE v

trim(v) == trim_end(trim_start(v))

\* Uuid::new_v4().to_string(): a fresh identifier no client value equals.
NewUuid == <<[c |-> "uuid", n |-> 36]>>

\* extract_request_id that echoes only values shorter than the limit.
extract_request_id_below_limit(h) ==
    IF h.present
    THEN LET trimmed == trim(h.value)
         IN  IF /\ trimmed # <<>>
                /\ len(trimmed) < MaxIdLen
                /\ \A i \in 1..Len(trimmed) : IsAscii(trimmed[i].c)
                /\ ~ \E i \in 1..Len(trimmed) : IsControl(trimmed[i].c)
             THEN trimmed
             ELSE NewUuid
    ELSE NewUuid

extract_request_id(h) ==
    IF h.present
    THEN LET trimmed == trim(h.value)
         IN  IF /\ trimmed # <<>>
                /\ len(trimmed) <= MaxIdLen
                /\ \A i \in 1..Len(trimmed) : IsAscii(trimmed[i].c)
                /\ ~ \E i \in 1..Len(trimmed) : IsControl(trimmed[i].c)
             THEN trimmed
             ELSE NewUuid
    ELSE NewUuid

\* No request has come in.
RequestIdStart ==
    /\ idpc = "start"
    /\ reqId = NoHeader
    /\ metaId = <<>>
    /\ respId = <<>>

\* The registry cell, the settings table and the requests at startup.
BridgeStart ==
    /\ pc = [r \in Reqs |-> "idle"]
    /\ kind = [r \in Reqs |-> "none"]
    /\ cred = [r \in Reqs |-> "user"]
    /\ body = [r \in Reqs |-> ""]
    /\ resp = [r \in Reqs |-> NoResp]
    /\ cell = Provider(InitUrl)
    /\ readers = {}
    /\ writer = {}
    /\ waitq = <<>>
    /\ settings = InitUrl
    /\ db = [r \in Reqs |-> "none"]
    /\ wk = [r \in Reqs |-> "none"]
    /\ chan = [r \in Reqs |-> EmptyChan]
    /\ wreg = [r \in Reqs |-> NoReg]
    /\ runs = [r \in Reqs |-> 0]
    /\ lastPut = {}
    /\ seen = [r \in Reqs |-> {}]
    /\ acc = {}

----------------------------------------------------------------------------
\* Error values and the responder (error.rs).

\* A message is the sequence of the pieces it is formatted from: a literal
\* is one piece, format!("...: {e}") is the literal followed by the text of
\* e.
Lit(s) == <<s>>

Format(s, e) == <<s, e>>

\* The texts an underlying error (engine, registry, worker) can display.
ErrorTexts == {"text1", "text2"}

\* enum ApiError: the kinds the enum has.
ApiErrorKinds == {"BadRequest", "Unauthorized", "NotFound", "Internal"}

BadRequest(m) == [kind |-> "BadRequest", msg |-> m]

Unauthorized(m) == [kind |-> "Unauthorized", msg |-> m]

NotFound(m) == [kind |-> "NotFound", msg |-> m]

Internal(m) == [kind |-> "Internal", msg |-> m]

\* ApiError::NotYetIndexed(..), as routes/trades constructs it.
NotYetIndexed(m) == [kind |-> "NotYetIndexed", msg |-> m]

\* Option<T>: None or Some(v).
None == <<>>

Some(v) == <<v>>

IsSome(option) == option # None

Ok(v) == [ok |-> TRUE, val |-> v]

Err(e) == [ok |-> FALSE, err |-> e]

\* What a handler's caller sees: the status line and the JSON body
\* {"error": {"code", "message"}}, or the value of a 200.
Response(status, code, message, val) ==
    [status |-> status, code |-> code, message |-> message, val |-> val]

\* No response is rendered.
NoResponse == Response(0, "", <<>>, <<>>)

\* impl Responder for ApiError: one arm for each kind of the enum. A value
\* of no kind of the enum has no arm.
respond_to(e) ==
    CASE e.kind = "BadRequest"   -> Response(400, "BAD_REQUEST", e.msg, <<>>)
      [] e.kind = "Unauthorized" -> Response(401, "UNAUTHORIZED", e.msg, <<>>)
      [] e.kind = "NotFound"     -> Response(404, "NOT_FOUND", e.msg, <<>>)
      [] e.kind = "Internal"     -> Response(500, "INTERNAL_ERROR", e.msg, <<>>)
      [] OTHER                   -> NoResponse

\* Rocket renders a handler's Result: Json<T> as a 200, ApiError through its
\* responder.
Render(res) ==
    IF res.ok THEN Response(200, "", <<>>, res.val) ELSE respond_to(res.err)

\* What the caller of a function that is no handler gets: its Result, and
\* no status line.
Returned(res) == Response(0, "", <<>>, res)

\* .collect::<Result<Vec<_>, _>>(): the first error, or all the values.
RECURSIVE collect(_)
collect(results) ==
    IF results = <<>> THEN Ok(<<>>)
    ELSE IF ~Head(results).ok THEN Head(results)
    ELSE LET rest == collect(Tail(results))
         IN  IF rest.ok THEN Ok(<<Head(results).val>> \o rest.val) ELSE rest

\* No handler has run.
HandlerStart ==
    /\ called = "none"
    /\ arg = [none |-> TRUE]
    /\ ret = NoResponse
    /\ did = <<>>

Init ==
    BridgeStart /\ PipelineStart(DefaultConfig) /\ RequestIdStart /\ HandlerStart

\* The same with either configuration of the rate limiter.
PipeInit ==
    \E cfg \in Configs :
        BridgeStart /\ PipelineStart(cfg) /\ RequestIdStart /\ HandlerStart

----------------------------------------------------------------------------
\* The registry cell's lock: tokio::sync::RwLock, a FIFO-fair semaphore.
\* An acquire succeeds at once only when nobody is queued and the permits
\* are there; otherwise the task queues and is served in arrival order.

\* A read acquire that looks only at the queue, not at the writer: what
\* get_registry would see of the cell if reads were not excluded by a swap.
CanReadDuringWrite == waitq = <<>>

CanRead == writer = {} /\ waitq = <<>>

\* A write acquire that does not wait for the readers to drain.
CanWriteOverReaders == writer = {} /\ waitq = <<>>

CanWrite == writer = {} /\ readers = {} /\ waitq = <<>>

\* Permits handed back are passed to the queue's head for as long as the
\* head can be served: readers share, a writer needs the lock alone.
RECURSIVE Grant(_, _, _)
Grant(rs, w, q) ==
    IF q = <<>> THEN [readers |-> rs, writer |-> w, waitq |-> q]
    ELSE IF kind[Head(q)] # "put" /\ w = {}
         THEN Grant(rs \cup {Head(q)}, w, Tail(q))
    ELSE IF kind[Head(q)] = "put" /\ w = {} /\ rs = {}
         THEN Grant(rs, {Head(q)}, Tail(q))
    ELSE [readers |-> rs, writer |-> w, waitq |-> q]

\* shared_raindex.read().await
LockRead(r) ==
    /\ IF CanRead
       THEN readers' = readers \cup {r} /\ UNCHANGED waitq
       ELSE waitq' = Append(waitq, r) /\ UNCHANGED readers
    /\ UNCHANGED writer

\* shared_raindex.write().await
LockWrite(r) ==
    /\ IF CanWrite
       THEN writer' = {r} /\ UNCHANGED waitq
       ELSE waitq' = Append(waitq, r) /\ UNCHANGED writer
    /\ UNCHANGED readers

\* Dropping r's guard without waking the queue.
UnlockWithoutGrant(r) ==
    /\ readers' = readers \ {r}
    /\ writer' = writer \ {r}
    /\ waitq' = SelectSeq(waitq, LAMBDA x : x # r)

\* Dropping r's guard, or its place in the queue.
Unlock(r) ==
    LET g == Grant(readers \ {r}, writer \ {r},
                   SelectSeq(waitq, LAMBDA x : x # r))
    IN  /\ readers' = g.readers
        /\ writer' = g.writer
        /\ waitq' = g.waitq

\* Requests take the slots in order, so that a slot number is only a name.
Fresh(r) == pc[r] = "idle" /\ (IF r = 1 THEN TRUE ELSE pc[r - 1] # "idle")

Respond(r, status, url, val, err, msg) ==
    resp' = [resp EXCEPT ![r] = [status |-> status, url |-> url, val |-> val,
                                 err |-> err, msg |-> msg]]

\* A send into one channel that all bridge calls share: the message lands
\* with whoever is receiving.
SendShared(r, m) ==
    chan' = [q \in Reqs |-> IF chan[q].tag = "empty" /\ wk[q] # "none"
                             THEN m ELSE chan[q]]

\* A send that lands in the channel although the receiver was dropped.
SendAfterDrop(r, m) ==
    chan' = [chan EXCEPT ![r] = m]

\* tx.send(m): lands in the channel while the receiver is alive; when the
\* receiver was dropped the send returns Err and the message is discarded.
Send(r, m) ==
    chan' = [chan EXCEPT ![r] = IF chan[r].tag = "empty" THEN m ELSE @]

\* The caller's half of a bridge call: clone the registry handle of the
\* provider, make the one-shot channel, spawn the worker thread (the handle
\* moves into it), then await the receiver.
Dispatch(r, provider) ==
    /\ wreg' = [wreg EXCEPT ![r] = provider.registry]
    /\ acc' = acc \cup {<<"handler", "clone">>}
    /\ chan' = [chan EXCEPT ![r] = EmptyChan]
    /\ wk' = [wk EXCEPT ![r] = "spawned"]
    /\ pc' = [pc EXCEPT ![r] = "await"]

----------------------------------------------------------------------------
\* GET /registry

get_registry(r) ==
    /\ Fresh(r)
    /\ seen' = [seen EXCEPT ![r] = lastPut]
    /\ kind' = [kind EXCEPT ![r] = "get"]
    /\ LockRead(r)
    /\ pc' = [pc EXCEPT ![r] = "lock"]
    /\ UNCHANGED <<cred, body, resp, cell, settings, db, wk, chan, wreg, runs,
                   lastPut, acc>>
    /\ UNCHANGED <<pipeVars, idVars, handlerVars>>

\* The handler reads the URL through the guard, answers, drops the guard.
GetRead(r) ==
    /\ pc[r] = "lock" /\ kind[r] = "get" /\ r \in readers
    /\ Respond(r, 200, registry_url(cell), {}, "", "")
    /\ acc' = acc \cup {<<"handler", "url">>}
    /\ Unlock(r)
    /\ pc' = [pc EXCEPT ![r] = "done"]
    /\ UNCHANGED <<kind, cred, body, cell, settings, db, wk, chan, wreg, runs,
                   lastPut, seen>>
    /\ UNCHANGED <<pipeVars, idVars, handlerVars>>

----------------------------------------------------------------------------
\* POST /v1/swap/calldata: an engine call dispatched under the shared guard

post_swap_calldata(r) ==
    /\ Fresh(r)
    /\ seen' = [seen EXCEPT ![r] = lastPut]
    /\ kind' = [kind EXCEPT ![r] = "call"]
    /\ LockRead(r)
    /\ pc' = [pc EXCEPT ![r] = "lock"]
    /\ UNCHANGED <<cred, body, resp, cell, settings, db, wk, chan, wreg, runs,
                   lastPut, acc>>
    /\ UNCHANGED <<pipeVars, idVars, handlerVars>>

\* run_with_client deriving the client on the calling task, before the
\* worker is spawned.
run_with_client_on_caller(r) ==
    /\ pc[r] = "lock" /\ kind[r] = "call" /\ r \in readers
    /\ wreg' = [wreg EXCEPT ![r] = cell.registry]
    /\ acc' = acc \cup {<<"handler", "clone">>, <<"handler", "client">>}
    /\ chan' = [chan EXCEPT ![r] = EmptyChan]
    /\ wk' = [wk EXCEPT ![r] = "spawned"]
    /\ pc' = [pc EXCEPT ![r] = "await"]
    /\ UNCHANGED <<kind, cred, body, resp, cell, readers, writer, waitq,
                   settings, db, runs, lastPut, seen>>
    /\ UNCHANGED <<pipeVars, idVars, handlerVars>>

\* raindex.run_with_client(..) on the provider behind the guard.
run_with_client(r) ==
    /\ pc[r] = "lock" /\ kind[r] = "call" /\ r \in readers
    /\ Dispatch(r, cell)
    /\ UNCHANGED <<kind, cred, body, resp, cell, readers, writer, waitq,
                   settings, db, runs, lastPut, seen>>
    /\ UNCHANGED <<pipeVars, idVars, handlerVars>>

\* POST /v1/order/dca: the handler takes &State<RaindexProvider>, the
\* provider managed at startup, and calls run_with_registry on it.
post_order_dca(r) ==
    /\ Fresh(r)
    /\ seen' = [seen EXCEPT ![r] = lastPut]
    /\ kind' = [kind EXCEPT ![r] = "deploy"]
    /\ Dispatch(r, Provider(InitUrl))
    /\ UNCHANGED <<cred, body, resp, cell, readers, writer, waitq, settings,
                   db, runs, lastPut>>
    /\ UNCHANGED <<pipeVars, idVars, handlerVars>>

\* The worker builds its current-thread runtime; a failed build is sent
\* back as Err(RuntimeInit) and the thread returns.
WorkerBuild(r) ==
    /\ wk[r] = "spawned"
    /\ \/ wk' = [wk EXCEPT ![r] = "running"] /\ UNCHANGED chan
       \/ wk' = [wk EXCEPT ![r] = "exited"] /\ Send(r, Msg("rt", {}, ""))
    /\ UNCHANGED <<pc, kind, cred, body, resp, cell, readers, writer, waitq,
                   settings, db, wreg, runs, lastPut, seen, acc>>
    /\ UNCHANGED <<pipeVars, idVars, handlerVars>>

\* RunClosure whose panic leaves the sender alive: nothing is sent and the
\* channel is not closed.
RunClosureLeakingSender(r) ==
    /\ runs' = [runs EXCEPT ![r] = @ + 1]
    /\ \/ /\ Send(r, Msg("ok", ClosureValue(r), ""))
          /\ wk' = [wk EXCEPT ![r] = "exited"]
       \/ /\ wk' = [wk EXCEPT ![r] = "exited"]
          /\ UNCHANGED chan
       \/ /\ wk' = [wk EXCEPT ![r] = "hung"]
          /\ UNCHANGED chan

\* block_on(f(..)) and tx.send: the closure returns and its value is sent,
\* or it panics (the thread unwinds, the sender is dropped unsent), or it
\* never returns.
RunClosure(r) ==
    /\ runs' = [runs EXCEPT ![r] = @ + 1]
    /\ \/ /\ Send(r, Msg("ok", ClosureValue(r), ""))
          /\ wk' = [wk EXCEPT ![r] = "exited"]
       \/ /\ Send(r, Msg("closed", {}, ""))
          /\ wk' = [wk EXCEPT ![r] = "exited"]
       \/ /\ wk' = [wk EXCEPT ![r] = "hung"]
          /\ UNCHANGED chan

\* ClientRun that runs the closure whether or not a client was derived.
ClientRunUnchecked(r) ==
    /\ wk[r] = "running" /\ kind[r] = "call"
    /\ RunClosure(r)
    /\ acc' = acc \cup {<<"worker", "client">>, <<"worker", "closure">>}
    /\ UNCHANGED <<pc, kind, cred, body, resp, cell, readers, writer, waitq,
                   settings, db, wreg, lastPut, seen>>
    /\ UNCHANGED <<pipeVars, idVars, handlerVars>>

\* The worker of run_with_client: derive the client from the registry it
\* owns, run the closure on it, send the result.
ClientRun(r) ==
    /\ wk[r] = "running" /\ kind[r] = "call"
    /\ IF ~ClientDerivable(wreg[r])
       THEN /\ Send(r, Msg("api", {}, ""))
            /\ wk' = [wk EXCEPT ![r] = "exited"]
            /\ acc' = acc \cup {<<"worker", "client">>}
            /\ UNCHANGED runs
       ELSE /\ RunClosure(r)
            /\ acc' = acc \cup {<<"worker", "client">>, <<"worker", "closure">>}
    /\ UNCHANGED <<pc, kind, cred, body, resp, cell, readers, writer, waitq,
                   settings, db, wreg, lastPut, seen>>
    /\ UNCHANGED <<pipeVars, idVars, handlerVars>>

\* The worker of run_with_registry: run the closure on the registry.
RegistryRun(r) ==
    /\ wk[r] = "running" /\ kind[r] = "deploy"
    /\ RunClosure(r)
    /\ acc' = acc \cup {<<"worker", "closure">>}
    /\ UNCHANGED <<pc, kind, cred, body, resp, cell, readers, writer, waitq,
                   settings, db, wreg, lastPut, seen>>
    /\ UNCHANGED <<pipeVars, idVars, handlerVars>>

\* impl Responder for ApiError: the code string that goes with a status.
ErrorCode(status) ==
    CASE status = 400 -> "BAD_REQUEST"
      [] status = 401 -> "UNAUTHORIZED"
      [] status = 404 -> "NOT_FOUND"
      [] status = 500 -> "INTERNAL_ERROR"
      [] OTHER -> ""

\* What rx.await and the map_err after it make of the channel's state.
BridgeError(k, tag) ==
    IF tag = "closed" THEN "WorkerPanicked"
    ELSE IF tag = "rt"
         THEN (IF k = "call" THEN "ClientRuntimeInit" ELSE "RegistryRuntimeInit")
    ELSE (IF k = "call" THEN "ClientInit" ELSE "RegistryLoad")

\* impl From<RaindexProviderError> for ApiError
ApiErrorMsg(e) ==
    IF e \in {"RegistryLoad", "RegistryRuntimeInit"}
    THEN "registry configuration error"
    ELSE IF e = "ClientInit" THEN "failed to initialize orderbook client"
    ELSE "failed to initialize client runtime"

\* Receive that spawns the worker again when the first one failed.
ReceiveRetrying(r) ==
    /\ pc[r] = "await" /\ chan[r].tag # "empty"
    /\ IF chan[r].tag = "ok"
       THEN /\ Respond(r, 200, "", chan[r].val, "", "")
            /\ Unlock(r)
            /\ pc' = [pc EXCEPT ![r] = "done"]
            /\ wk' = [wk EXCEPT ![r] = "none"]
            /\ wreg' = [wreg EXCEPT ![r] = NoReg]
            /\ runs' = [runs EXCEPT ![r] = 0]
       ELSE /\ wk' = [wk EXCEPT ![r] = "spawned"]
            /\ UNCHANGED <<resp, readers, writer, waitq, pc, wreg, runs>>
    /\ chan' = [chan EXCEPT ![r] = EmptyChan]
    /\ UNCHANGED <<kind, cred, body, cell, settings, db, lastPut, seen, acc>>
    /\ UNCHANGED <<pipeVars, idVars, handlerVars>>

\* rx.await resolves: the closure's value, or the error the worker sent, or
\* WorkerPanicked when the sender was dropped unsent. The handler answers;
\* its guard, the channel and the call's locals go out of scope.
Receive(r) ==
    /\ pc[r] = "await" /\ chan[r].tag # "empty"
    /\ IF chan[r].tag = "ok"
       THEN Respond(r, 200, "", chan[r].val, "", "")
       ELSE Respond(r, 500, "", {}, BridgeError(kind[r], chan[r].tag),
                    ApiErrorMsg(BridgeError(kind[r], chan[r].tag)))
    /\ Unlock(r)
    /\ pc' = [pc EXCEPT ![r] = "done"]
    /\ chan' = [chan EXCEPT ![r] = EmptyChan]
    /\ wk' = [wk EXCEPT ![r] = "none"]
    /\ wreg' = [wreg EXCEPT ![r] = NoReg]
    /\ runs' = [runs EXCEPT ![r] = 0]
    /\ UNCHANGED <<kind, cred, body, cell, settings, db, lastPut, seen, acc>>
    /\ UNCHANGED <<pipeVars, idVars, handlerVars>>

----------------------------------------------------------------------------
\* PUT /admin/registry

\* The AdminKey request guard: only an admin principal passes.
AdminKey(c) == c = "admin"

\* The body that asks for the exclusive guard first and loads under it.
PutBodyLockingFirst(r, u) ==
    IF u = ""
    THEN /\ Respond(r, 400, "", {}, "BadRequest", "registry_url must not be empty")
         /\ pc' = [pc EXCEPT ![r] = "done"]
         /\ UNCHANGED <<wk, chan, readers, writer, waitq>>
    ELSE /\ LockWrite(r)
         /\ wk' = [wk EXCEPT ![r] = "spawned"]
         /\ chan' = [chan EXCEPT ![r] = EmptyChan]
         /\ pc' = [pc EXCEPT ![r] = "loading"]
         /\ UNCHANGED resp

\* The handler's body once its guards let the request in: the empty-URL
\* check, then RaindexProvider::load spawns its worker and is awaited. The
\* lock is not touched.
PutBody(r, u) ==
    /\ IF u = ""
       THEN /\ Respond(r, 400, "", {}, "BadRequest", "registry_url must not be empty")
            /\ pc' = [pc EXCEPT ![r] = "done"]
            /\ UNCHANGED <<wk, chan>>
       ELSE /\ wk' = [wk EXCEPT ![r] = "spawned"]
            /\ chan' = [chan EXCEPT ![r] = EmptyChan]
            /\ pc' = [pc EXCEPT ![r] = "loading"]
            /\ UNCHANGED resp
    /\ UNCHANGED <<readers, writer, waitq>>

\* put_registry without its AdminKey guard.
put_registry_unguarded(r, c, u) ==
    /\ Fresh(r)
    /\ seen' = [seen EXCEPT ![r] = lastPut]
    /\ kind' = [kind EXCEPT ![r] = "put"]
    /\ cred' = [cred EXCEPT ![r] = c]
    /\ body' = [body EXCEPT ![r] = u]
    /\ PutBody(r, u)
    /\ UNCHANGED <<cell, settings, db, wreg, runs, lastPut, acc>>
    /\ UNCHANGED <<pipeVars, idVars, handlerVars>>

\* The handler's entry. The guards of its signature run first (the body is
\* not looked at when they reject), then the body.
put_registry(r, c, u) ==
    /\ Fresh(r)
    /\ seen' = [seen EXCEPT ![r] = lastPut]
    /\ kind' = [kind EXCEPT ![r] = "put"]
    /\ cred' = [cred EXCEPT ![r] = c]
    /\ body' = [body EXCEPT ![r] = u]
    /\ IF ~AdminKey(c)
       THEN /\ Respond(r, 403, "", {}, "Forbidden", "forbidden")
            /\ pc' = [pc EXCEPT ![r] = "done"]
            /\ UNCHANGED <<wk, chan, readers, writer, waitq>>
       ELSE PutBody(r, u)
    /\ UNCHANGED <<cell, settings, db, wreg, runs, lastPut, acc>>
    /\ UNCHANGED <<pipeVars, idVars, handlerVars>>

\* The worker of RaindexProvider::load: DotrainRegistry::new(url) returns
\* and its result is sent, or it panics (the sender is dropped unsent), or
\* it never returns.
LoadRun(r) ==
    /\ wk[r] = "running" /\ kind[r] = "put"
    /\ acc' = acc \cup {<<"worker", "new">>}
    /\ \/ /\ IF body[r] \in GoodUrls
             THEN Send(r, Msg("ok", {}, body[r]))
             ELSE Send(r, Msg("api", {}, ""))
          /\ wk' = [wk EXCEPT ![r] = "exited"]
       \/ /\ Send(r, Msg("closed", {}, ""))
          /\ wk' = [wk EXCEPT ![r] = "exited"]
       \/ /\ wk' = [wk EXCEPT ![r] = "hung"]
          /\ UNCHANGED chan
    /\ UNCHANGED <<pc, kind, cred, body, resp, cell, readers, writer, waitq,
                   settings, db, wreg, runs, lastPut, seen>>
    /\ UNCHANGED <<pipeVars, idVars, handlerVars>>

\* PutLoaded without the `?` on load's result: the handler goes on to the
\* exclusive guard whatever the loader sent.
PutLoadedIgnoringError(r) ==
    /\ pc[r] = "loading" /\ chan[r].tag # "empty"
    /\ LockWrite(r)
    /\ pc' = [pc EXCEPT ![r] = "lock"]
    /\ wk' = [wk EXCEPT ![r] = "none"]
    /\ UNCHANGED <<kind, cred, body, resp, cell, settings, db, chan, wreg, runs,
                   lastPut, seen, acc>>
    /\ UNCHANGED <<pipeVars, idVars, handlerVars>>

\* load(..).await returns. Any error is answered 400; on success the
\* handler holds the new provider and asks for the exclusive guard.
PutLoaded(r) ==
    /\ pc[r] = "loading" /\ chan[r].tag # "empty"
    /\ IF chan[r].tag = "ok"
       THEN /\ LockWrite(r)
            /\ pc' = [pc EXCEPT ![r] = "lock"]
            /\ UNCHANGED <<resp, chan, body>>
       ELSE /\ Respond(r, 400, "", {}, "BadRequest", "failed to load registry")
            /\ pc' = [pc EXCEPT ![r] = "done"]
            /\ chan' = [chan EXCEPT ![r] = EmptyChan]
            /\ body' = [body EXCEPT ![r] = ""]
            /\ UNCHANGED <<readers, writer, waitq>>
    /\ wk' = [wk EXCEPT ![r] = "none"]
    /\ UNCHANGED <<kind, cred, cell, settings, db, wreg, runs, lastPut, seen,
                   acc>>
    /\ UNCHANGED <<pipeVars, idVars, handlerVars>>

\* settings::set_setting under the exclusive guard: the row is written, or
\* the statement fails and nothing is written.
PutPersist(r) ==
    /\ pc[r] = "lock" /\ kind[r] = "put" /\ writer = {r}
    /\ \/ settings' = body[r] /\ db' = [db EXCEPT ![r] = "ok"]
       \/ UNCHANGED settings /\ db' = [db EXCEPT ![r] = "err"]
    /\ pc' = [pc EXCEPT ![r] = "persisting"]
    /\ UNCHANGED <<kind, cred, body, resp, cell, readers, writer, waitq, wk,
                   chan, wreg, runs, lastPut, seen, acc>>
    /\ UNCHANGED <<pipeVars, idVars, handlerVars>>

\* PutPersistFailed that answers but keeps the exclusive guard.
PutPersistFailedKeepingGuard(r) ==
    /\ pc[r] = "persisting" /\ db[r] = "err"
    /\ Respond(r, 500, "", {}, "Internal", "failed to persist setting")
    /\ pc' = [pc EXCEPT ![r] = "done"]
    /\ chan' = [chan EXCEPT ![r] = EmptyChan]
    /\ body' = [body EXCEPT ![r] = ""]
    /\ db' = [db EXCEPT ![r] = "none"]
    /\ UNCHANGED <<kind, cred, cell, readers, writer, waitq, settings, wk,
                   wreg, runs, lastPut, seen, acc>>
    /\ UNCHANGED <<pipeVars, idVars, handlerVars>>

\* set_setting returned Err: Internal, and `?` drops the guard and the
\* new provider.
PutPersistFailed(r) ==
    /\ pc[r] = "persisting" /\ db[r] = "err"
    /\ Respond(r, 500, "", {}, "Internal", "failed to persist setting")
    /\ Unlock(r)
    /\ pc' = [pc EXCEPT ![r] = "done"]
    /\ chan' = [chan EXCEPT ![r] = EmptyChan]
    /\ body' = [body EXCEPT ![r] = ""]
    /\ db' = [db EXCEPT ![r] = "none"]
    /\ UNCHANGED <<kind, cred, cell, settings, wk, wreg, runs, lastPut, seen,
                   acc>>
    /\ UNCHANGED <<pipeVars, idVars, handlerVars>>

\* `*guard = new_provider` begins: the old provider is dropped in place.
PutOverwrite(r) ==
    /\ pc[r] = "persisting" /\ db[r] = "ok"
    /\ cell' = Torn
    /\ pc' = [pc EXCEPT ![r] = "writing"]
    /\ UNCHANGED <<kind, cred, body, resp, readers, writer, waitq, settings,
                   db, wk, chan, wreg, runs, lastPut, seen, acc>>
    /\ UNCHANGED <<pipeVars, idVars, handlerVars>>

\* PutCommit that leaves the startup provider in the cell.
PutCommitStale(r) ==
    /\ pc[r] = "writing"
    /\ cell' = Provider(InitUrl)
    /\ lastPut' = {r}
    /\ Unlock(r)
    /\ Respond(r, 200, body[r], {}, "", "")
    /\ pc' = [pc EXCEPT ![r] = "done"]
    /\ chan' = [chan EXCEPT ![r] = EmptyChan]
    /\ db' = [db EXCEPT ![r] = "none"]
    /\ UNCHANGED <<kind, cred, body, settings, wk, wreg, runs, seen, acc>>
    /\ UNCHANGED <<pipeVars, idVars, handlerVars>>

\* The new provider is in the cell; drop(guard); Ok(Json(registry_url)).
PutCommit(r) ==
    /\ pc[r] = "writing"
    /\ cell' = [registry |-> Registry(chan[r].reg)]
    /\ lastPut' = {r}
    /\ Unlock(r)
    /\ Respond(r, 200, body[r], {}, "", "")
    /\ pc' = [pc EXCEPT ![r] = "done"]
    /\ chan' = [chan EXCEPT ![r] = EmptyChan]
    /\ db' = [db EXCEPT ![r] = "none"]
    /\ UNCHANGED <<kind, cred, body, settings, wk, wreg, runs, seen, acc>>
    /\ UNCHANGED <<pipeVars, idVars, handlerVars>>

----------------------------------------------------------------------------
\* The connection drops: the handler task is dropped at the await it is
\* suspended in. Its guard or queue place, its receiver and its locals are
\* dropped with it; its worker thread is detached and runs on.
Cancel(r) ==
    /\ pc[r] \in {"lock", "await", "loading", "persisting"}
    /\ pc' = [pc EXCEPT ![r] = "cancelled"]
    /\ Unlock(r)
    /\ chan' = [chan EXCEPT ![r] =
                   IF wk[r] = "none" THEN EmptyChan
                   ELSE IF @.tag = "empty" THEN Msg("rxdropped", {}, "")
                   ELSE @]
    /\ body' = [body EXCEPT ![r] = IF wk[r] = "none" THEN "" ELSE @]
    /\ db' = [db EXCEPT ![r] = "none"]
    /\ UNCHANGED <<kind, cred, resp, cell, settings, wk, wreg, runs, lastPut,
                   seen, acc>>
    /\ UNCHANGED <<pipeVars, idVars, handlerVars>>

----------------------------------------------------------------------------
Next ==
    \/ \E r \in Reqs : get_registry(r)
    \/ \E r \in Reqs : GetRead(r)
    \/ \E r \in Reqs : post_swap_calldata(r)
    \/ \E r \in Reqs : run_with_client(r)
    \/ \E r \in Reqs : post_order_dca(r)
    \/ \E r \in Reqs : WorkerBuild(r)
    \/ \E r \in Reqs : ClientRun(r)
    \/ \E r \in Reqs : RegistryRun(r)
    \/ \E r \in Reqs : Receive(r)
    \/ \E r \in Reqs, c \in Creds, u \in Bodies : put_registry(r, c, u)
    \/ \E r \in Reqs : LoadRun(r)
    \/ \E r \in Reqs : PutLoaded(r)
    \/ \E r \in Reqs : PutPersist(r)
    \/ \E r \in Reqs : PutPersistFailed(r)
    \/ \E r \in Reqs : PutOverwrite(r)
    \/ \E r \in Reqs : PutCommit(r)
    \/ \E r \in Reqs : Cancel(r)

Spec == Init /\ [][Next]_vars

\* The tokio scheduler polls every ready task, and a spawned OS thread
\* runs: each handler step and each worker step that stays possible is
\* eventually taken. Arrivals and disconnects are up to the clients.
Fairness ==
    \A r \in Reqs :
        /\ WF_vars(GetRead(r))
        /\ WF_vars(run_with_client(r))
        /\ WF_vars(WorkerBuild(r))
        /\ WF_vars(ClientRun(r))
        /\ WF_vars(RegistryRun(r))
        /\ WF_vars(Receive(r))
        /\ WF_vars(LoadRun(r))
        /\ WF_vars(PutLoaded(r))
        /\ WF_vars(PutPersist(r))
        /\ WF_vars(PutPersistFailed(r))
        /\ WF_vars(PutOverwrite(r))
        /\ WF_vars(PutCommit(r))

FairSpec == Spec /\ Fairness

----------------------------------------------------------------------------
\* The request pipeline: guards, body, handler

\* The request went through the stages ss and goes on to the guard g.
Pass(r, ss, g) ==
    /\ gpc' = [gpc EXCEPT ![r] = g]
    /\ trail' = [trail EXCEPT ![r] = @ \o ss]
    /\ UNCHANGED out

\* The last of the stages ss answered the request.
Answer(r, ss, status, wait) ==
    /\ gpc' = [gpc EXCEPT ![r] = "done"]
    /\ trail' = [trail EXCEPT ![r] = @ \o ss]
    /\ out' = [out EXCEPT ![r] = [status |-> status, retry_after |-> wait]]

\* A request comes in: Rocket matches its route and starts on the guards.
Arrive(r, rt, h, p) ==
    /\ gpc[r] = "idle"
    /\ \A q \in Reqs : q < r => gpc[q] # "idle"
    /\ route' = [route EXCEPT ![r] = rt]
    /\ authz' = [authz EXCEPT ![r] = h]
    /\ payload' = [payload EXCEPT ![r] = p]
    /\ gpc' = [gpc EXCEPT ![r] = FirstGuard(rt)]
    /\ UNCHANGED <<limits, now, global, perKey, out, trail, spent, tally>>
    /\ UNCHANGED <<bridgeVars, idVars, handlerVars>>

\* The GlobalRateLimit guard: one check of the global bucket.
GlobalRateLimit(r) ==
    /\ gpc[r] = "global"
    /\ LET c == Check(global, limits.global, now)
       IN  /\ global' = c.bucket
           /\ tally' = [tally EXCEPT !["global"] =
                         Tally(@, Refill(global, limits.global, now), c)]
           /\ IF c.admit
              THEN /\ Pass(r, <<"global">>, AfterGlobal(route[r]))
                   /\ spent' = [spent EXCEPT ![r] = @ \cup {"global"}]
              ELSE /\ Answer(r, <<"global">>, 429, c.retry_after)
                   /\ UNCHANGED spent
    /\ UNCHANGED <<limits, now, perKey, route, authz, payload>>
    /\ UNCHANGED <<bridgeVars, idVars, handlerVars>>

\* The bucket of key-id k, made full at the key's first request.
KeyBucket(k) ==
    IF perKey[k].made
    THEN [tokens |-> perKey[k].tokens, last |-> perKey[k].last]
    ELSE NewBucket(limits.perKey, now)

\* The guard's steps after a verified header: the check of the key's
\* bucket, then, for AdminKey, the admin flag.
Authenticated(r) ==
    LET k == authz[r].key
        c == Check(KeyBucket(k), limits.perKey, now)
    IN  /\ perKey' = [perKey EXCEPT ![k] =
                         [made |-> TRUE, tokens |-> c.bucket.tokens,
                          last |-> c.bucket.last]]
        /\ tally' = [tally EXCEPT ![k] =
                      Tally(@, Refill(KeyBucket(k), limits.perKey, now), c)]
        /\ IF ~c.admit
           THEN /\ Answer(r, <<"auth", "perkey">>, 429, c.retry_after)
                /\ UNCHANGED spent
           ELSE /\ spent' = [spent EXCEPT ![r] = @ \cup {k}]
                /\ IF ~AdminOnly(route[r])
                   THEN Pass(r, <<"auth", "perkey">>, "handler")
                   ELSE IF is_admin(authz[r])
                   THEN Pass(r, <<"auth", "perkey", "gate">>, "handler")
                   ELSE Answer(r, <<"auth", "perkey", "gate">>, 403, 0)

\* A guard that charges the bucket of the key-id the request names
\* whether or not the header is verified.
AuthenticatedKeyChargingFirst(r) ==
    /\ gpc[r] = "auth"
    /\ IF authz[r].key \in KeyIds
       THEN IF Verify(authz[r])
            THEN Authenticated(r)
            ELSE /\ perKey' = [perKey EXCEPT ![authz[r].key] =
                                  [made |-> TRUE,
                                   tokens |-> Check(KeyBucket(authz[r].key),
                                                    limits.perKey, now).bucket.tokens,
                                   last |-> now]]
                 /\ Answer(r, <<"auth">>, 401, 0)
                 /\ UNCHANGED <<spent, tally>>
       ELSE /\ Answer(r, <<"auth">>, 401, 0)
            /\ UNCHANGED <<perKey, spent, tally>>
    /\ UNCHANGED <<limits, now, global, route, authz, payload>>
    /\ UNCHANGED <<bridgeVars, idVars, handlerVars>>

\* A guard that looks at the body before the credentials.
AuthenticatedKeyAfterBody(r) ==
    /\ gpc[r] = "auth"
    /\ IF HasPayload(route[r]) /\ payload[r] = "bad"
       THEN /\ Answer(r, <<"body">>, 400, 0)
            /\ UNCHANGED <<perKey, spent, tally>>
       ELSE IF Verify(authz[r])
       THEN Authenticated(r)
       ELSE /\ Answer(r, <<"auth">>, 401, 0)
            /\ UNCHANGED <<perKey, spent, tally>>
    /\ UNCHANGED <<limits, now, global, route, authz, payload>>
    /\ UNCHANGED <<bridgeVars, idVars, handlerVars>>

\* The AuthenticatedKey and AdminKey guards: the Authorization header is
\* verified against the credential store; a request that fails gets 401
\* and goes no further.
AuthenticatedKey(r) ==
    /\ gpc[r] = "auth"
    /\ IF Verify(authz[r])
       THEN Authenticated(r)
       ELSE /\ Answer(r, <<"auth">>, 401, 0)
            /\ UNCHANGED <<perKey, spent, tally>>
    /\ UNCHANGED <<limits, now, global, route, authz, payload>>
    /\ UNCHANGED <<bridgeVars, idVars, handlerVars>>

\* The stages of the handler: the data guard Json<T> and the handler's own
\* checks of the body, then the engine call or registry load.
HandlerStages(rt) ==
    (IF HasPayload(rt) THEN <<"body">> ELSE <<>>)
        \o (IF CallsEngine(rt) THEN <<"dispatch">> ELSE <<>>)

\* The data guard and the handler's body.
Handle(r) ==
    /\ gpc[r] = "handler"
    /\ IF HasPayload(route[r]) /\ payload[r] = "bad"
       THEN Answer(r, <<"body">>, 400, 0)
       ELSE Answer(r, HandlerStages(route[r]), 200, 0)
    /\ UNCHANGED <<limits, now, global, perKey, route, authz, payload, spent, tally>>
    /\ UNCHANGED <<bridgeVars, idVars, handlerVars>>

\* Time passes.
Tick ==
    /\ now < MaxTicks * TickLen
    /\ now' = now + TickLen
    /\ tally' = [b \in Buckets |-> NoTally]
    /\ UNCHANGED <<limits, global, perKey, gpc, route, authz, payload, out, trail, spent>>
    /\ UNCHANGED <<bridgeVars, idVars, handlerVars>>

PipeNext ==
    \/ \E r \in Reqs : \E q \in Requests :
           Arrive(r, q.route, q.authz, q.payload)
    \/ \E r \in Reqs : GlobalRateLimit(r)
    \/ \E r \in Reqs : AuthenticatedKey(r)
    \/ \E r \in Reqs : Handle(r)
    \/ Tick

PipeSpec == PipeInit /\ [][PipeNext]_vars

----------------------------------------------------------------------------
\* The request-id fairing (RequestLogger)

\* on_request: the id is taken from the header, or generated, and cached
\* in the request's RequestMeta.
on_request(h) ==
    /\ idpc = "start"
    /\ reqId' = h
    /\ metaId' = extract_request_id(h)
    /\ idpc' = "cached"
    /\ UNCHANGED respId
    /\ UNCHANGED <<bridgeVars, pipeVars, handlerVars>>

\* on_response: the cached id is set as the response's X-Request-Id.
on_response ==
    /\ idpc = "cached"
    /\ respId' = metaId
    /\ idpc' = "stamped"
    /\ UNCHANGED <<reqId, metaId>>
    /\ UNCHANGED <<bridgeVars, pipeVars, handlerVars>>

IdNext ==
    \/ \E h \in RequestHeaders : on_request(h)
    \/ on_response

IdSpec == Init /\ [][IdNext]_vars

----------------------------------------------------------------------------
\* The handlers' bodies. Each action runs one function from its first line
\* to its return on inputs drawn from the sets above it, and records the
\* engine calls it made and the response rendered from its result.

\* A function is called once, on inputs `in`: it makes the calls `calls`
\* on the engine and its caller gets `response`.
Call(f, in, response, calls) ==
    /\ called = "none"
    /\ called' = f
    /\ arg' = in
    /\ ret' = response
    /\ did' = calls
    /\ UNCHANGED <<bridgeVars, pipeVars, idVars>>

\* The messages an error value is constructed with.
Messages == {Lit("m1"), Lit("m2")}

\* The error values the routes construct: the four kinds of the enum, and
\* ApiError::NotYetIndexed of the trade routes.
RaisedErrors ==
    {[kind |-> k, msg |-> m] : k \in ApiErrorKinds \cup {"NotYetIndexed"},
                               m \in Messages}

\* A handler returns Err(e): Rocket calls e.respond_to(req).
RespondTo(e) ==
    Call("respond_to", e, respond_to(e), <<>>)

\* The message of a rejected credential: one constant.
AuthFailureMessage == Lit("invalid credentials")

\* The rejection that names the part of the credential that was wrong.
AuthFailureTelling(h) ==
    IF h = NoAuth THEN Unauthorized(Lit("missing Authorization header"))
    ELSE IF h.key \notin ActiveKeys THEN Unauthorized(Lit("unknown key"))
    ELSE Unauthorized(Lit("wrong secret"))

\* The error value of a credential that does not verify.
AuthFailure(h) == Unauthorized(AuthFailureMessage)

\* The store lookup and the hash verification, which runs against a
\* throwaway hash when the key-id is missing or inactive.
AuthSteps(h) == IF h = NoAuth THEN <<>> ELSE <<"lookup", "verify">>

\* AuthenticatedKey::from_request: the Authorization header is decoded, the
\* key-id looked up and the secret verified; a failure is answered by the
\* responder, a success hands the principal to the handler.
from_request(h) ==
    Call("from_request", h,
         IF Verify(h) THEN NoResponse ELSE respond_to(AuthFailure(h)),
         AuthSteps(h))

\* enum RaindexProviderError, with the text its source error displays.
ProviderErrors ==
    {[kind |-> k, text |-> t] : k \in {"RegistryLoad", "ClientInit"}, t \in ErrorTexts}
    \cup {[kind |-> k, text |-> ""] :
              k \in {"RegistryRuntimeInit", "ClientRuntimeInit", "WorkerPanicked"}}

\* impl From<RaindexProviderError> for ApiError.
from(e) ==
    IF e.kind \in {"RegistryLoad", "RegistryRuntimeInit"}
    THEN Internal(Lit("registry configuration error"))
    ELSE IF e.kind = "ClientInit"
    THEN Internal(Lit("failed to initialize orderbook client"))
    ELSE Internal(Lit("failed to initialize client runtime"))

\* run_with_client / run_with_registry fails and the handler answers with
\* .map_err(ApiError::from)?.
ProviderFails(e) ==
    Call("from", e, respond_to(from(e)), <<>>)

\* One call on the engine's GUI: the method, the key it is given and the
\* name the handler's error message gives it.
Step(call, key, what) == [call |-> call, key |-> key, what |-> what]

GetGui(order) == Step("get_gui", order, "")

GetArgs == Step("get_deployment_transaction_args", "", "")

\* if let Some(vault_id) = req.input_vault_id / req.output_vault_id.
VaultIdSteps(req) ==
    (IF req.input_vault_id
     THEN <<Step("set_vault_id", "input-token", "input vault id")>> ELSE <<>>)
    \o (IF req.output_vault_id
        THEN <<Step("set_vault_id", "output-token", "output vault id")>> ELSE <<>>)

\* The calls of POST /v1/order/dca, in the order of the function's lines.
DcaSteps(req) ==
    << GetGui("st0x-dca"),
       Step("set_select_token", "input-token", "input token"),
       Step("set_select_token", "output-token", "output token"),
       Step("set_field_value", "budget-amount", "budget amount"),
       Step("set_field_value", "period", "period"),
       Step("set_field_value", "period-unit", "period unit"),
       Step("set_field_value", "start-io", "start io"),
       Step("set_field_value", "floor-io", "floor io"),
       Step("set_deposit", "output-token", "deposit") >>
    \o VaultIdSteps(req) \o <<GetArgs>>

\* The calls of POST /v1/order/solver: the handler creates the GUI, then
\* process_deploy_solver makes the others.
SolverSteps(req) ==
    << GetGui("st0x-solver"),
       Step("set_select_token", "input-token", "input token"),
       Step("set_select_token", "output-token", "output token"),
       Step("set_field_value", "amount", "amount"),
       Step("set_field_value", "io-ratio", "io ratio"),
       Step("set_deposit", "output-token", "deposit") >>
    \o VaultIdSteps(req) \o <<GetArgs>>

\* The calls go on after one failed; the first failure is reported.
RunStepsThrough(steps, fails, done) ==
    LET I == {i \in 1..Len(steps) : steps[i] \in fails}
    IN  [did |-> done \o steps,
         failed |-> IF I = {} THEN 0
                    ELSE Len(done) + CHOOSE i \in I : \A j \in I : i <= j]

\* The calls one after the other, each followed by `?`: the first that
\* fails returns. `failed` is its position, 0 when none failed.
RECURSIVE RunSteps(_, _, _)
RunSteps(steps, fails, done) ==
    IF steps = <<>> THEN [did |-> done, failed |-> 0]
    ELSE IF Head(steps) \in fails
    THEN [did |-> Append(done, Head(steps)), failed |-> Len(done) + 1]
    ELSE RunSteps(Tail(steps), fails, Append(done, Head(steps)))

\* The calldata of an approval: an ERC-20 approve(spender, amount) call, or
\* bytes that are none.
ApproveCall(spender, amount) ==
    [selector |-> "approve", spender |-> spender, amount |-> amount]

NotApproveCall == [selector |-> "0xabcd", spender |-> "", amount |-> 0]

\* ExtendedApprovalCalldata.
ExtendedApproval(token, calldata) ==
    [token |-> token, symbol |-> token, calldata |-> calldata]

\* The approvals of the args a deployment gets from the engine.
ApprovalLists ==
    {<<>>,
     <<ExtendedApproval("USDC", ApproveCall("orderbook", 7))>>,
     <<ExtendedApproval("USDC", NotApproveCall)>>}

\* U256::to_string(): the decimal digits, most significant first.
Digits == <<"0", "1", "2", "3", "4", "5", "6", "7", "8", "9">>

RECURSIVE to_decimal(_)
to_decimal(n) ==
    IF n < 10 THEN <<Digits[n + 1]>>
    ELSE Append(to_decimal(n \div 10), Digits[(n % 10) + 1])

\* An approval whose calldata does not decode gets the amount "0".
decode_approval_amount_or_zero(calldata) ==
    IF calldata.selector # "approve" THEN Ok(to_decimal(0))
    ELSE Ok(to_decimal(calldata.amount))

\* fn decode_approval_amount.
decode_approval_amount(calldata) ==
    IF calldata.selector # "approve"
    THEN Err(Internal(Lit("failed to decode approval calldata")))
    ELSE Ok(to_decimal(calldata.amount))

\* fn map_deployment_to_response.
map_deployment_to_response(args) ==
    LET amounts == collect([i \in 1..Len(args.approvals) |->
                               decode_approval_amount(args.approvals[i].calldata)])
    IN  IF ~amounts.ok THEN amounts
        ELSE Ok([to |-> args.orderbook_address,
                 data |-> args.deployment_calldata,
                 value |-> 0,
                 approvals |-> [i \in 1..Len(args.approvals) |->
                                   [token |-> args.approvals[i].token,
                                    spender |-> args.orderbook_address,
                                    symbol |-> args.approvals[i].symbol,
                                    approval_data |-> args.approvals[i].calldata,
                                    amount |-> amounts.val[i]]]])

\* The most approvals of a deployment.
MaxApprovals == 2

\* DeploymentTransactionArgs: the approvals are for the orderbook or for
\* another spender, of amounts of one and of several digits, or do not
\* decode.
TransactionArgs ==
    {[orderbook_address |-> "orderbook", deployment_calldata |-> d, approvals |-> a] :
        d \in {"calldata1", "calldata2"},
        a \in UNION {[1..n -> {ExtendedApproval("USDC", ApproveCall("orderbook", 500000)),
                               ExtendedApproval("WETH", ApproveCall("another", 7)),
                               ExtendedApproval("DAI", ApproveCall("orderbook", 0)),
                               ExtendedApproval("USDC", NotApproveCall)}] :
                        n \in 0..MaxApprovals}}

\* map_deployment_to_response, called on its own.
call_map_deployment_to_response(args) ==
    Call("map_deployment_to_response", args,
         Returned(map_deployment_to_response(args)), <<>>)

\* The .map_err of each call of process_deploy_dca.
DcaError(step, e) ==
    IF step.call = "get_gui"
    THEN Internal(Lit("failed to initialize order configuration"))
    ELSE IF step.call = "get_deployment_transaction_args"
    THEN Internal(Format("failed to build deployment transaction: ", e))
    ELSE BadRequest(Format("invalid " \o step.what \o ": ", e))

\* The errors of the solver's calls: the handler's .map_err for the GUI,
\* the OrderDeployer's for the others.
SolverError(step, e) ==
    IF step.call = "get_gui"
    THEN Internal(Lit("failed to initialize order configuration"))
    ELSE IF step.call = "get_deployment_transaction_args"
    THEN Internal(Lit("failed to build deployment transaction"))
    ELSE BadRequest(Format("invalid " \o step.what \o ": ", e))

\* The most calls the engine fails in one deployment.
MaxFailures == 2

\* A request with both vault ids.
BothVaultIds == [input_vault_id |-> TRUE, output_vault_id |-> TRUE]

\* The inputs of a deployment whose calls are among `all`: which vault ids
\* the request has, the calls the engine fails, the text of its errors, the
\* approvals of the args it returns.
DeployInputs(all) ==
    {[req |-> [input_vault_id |-> i, output_vault_id |-> o],
      fails |-> F, text |-> t, approvals |-> a] :
        i \in BOOLEAN, o \in BOOLEAN, t \in ErrorTexts, a \in ApprovalLists,
        F \in {G \in SUBSET {all[n] : n \in 1..Len(all)} :
                  Cardinality(G) <= MaxFailures}}

\* The DeploymentTransactionArgs the engine returns.
DeploymentArgs(in) ==
    [orderbook_address |-> "orderbook",
     deployment_calldata |-> "calldata",
     approvals |-> in.approvals]

\* POST /v1/order/dca: process_deploy_dca.
process_deploy_dca(in) ==
    LET steps == DcaSteps(in.req)
        run == RunSteps(steps, in.fails, <<>>)
    IN  Call("process_deploy_dca", in,
             Render(IF run.failed # 0
                    THEN Err(DcaError(steps[run.failed], in.text))
                    ELSE map_deployment_to_response(DeploymentArgs(in))),
             run.did)

\* POST /v1/order/solver: post_order_solver and process_deploy_solver.
process_deploy_solver(in) ==
    LET steps == SolverSteps(in.req)
        run == RunSteps(steps, in.fails, <<>>)
    IN  Call("process_deploy_solver", in,
             Render(IF run.failed # 0
                    THEN Err(SolverError(steps[run.failed], in.text))
                    ELSE map_deployment_to_response(DeploymentArgs(in))),
             run.did)

\* POST /v1/swap/quote. A Float is modelled by the number it stands for, a
\* ratio of two of them by the fraction in lowest terms.
MaxAmount == 4

MaxCandidates == 3

MaxOutputs == 0..2

Ratios == 1..3

\* A take candidate: the output it can give and its price, input per
\* output.
Candidates == [max_output : MaxOutputs, ratio : Ratios]

CandidateLists == UNION {[1..n -> Candidates] : n \in 0..MaxCandidates}

\* The decimal strings of the amounts, "0" first.
DecimalStrings == <<"0", "1", "2", "3", "4", "5", "6", "7", "8", "9">>

\* outputAmount as the request carries it.
OutputAmounts ==
    {DecimalStrings[n + 1] : n \in 0..MaxAmount} \cup {"not-a-number", ""}

\* Float::parse of a decimal string.
parse(text) ==
    IF \E n \in 1..Len(DecimalStrings) : DecimalStrings[n] = text
    THEN Ok((CHOOSE n \in 1..Len(DecimalStrings) : DecimalStrings[n] = text) - 1)
    ELSE Err("parse")

RECURSIVE Gcd(_, _)
Gcd(a, b) == IF b = 0 THEN a ELSE Gcd(b, a % b)

\* Float::div: the quotient, an error when the divisor is zero.
div(a, b) ==
    IF b = 0 THEN Err("division by zero")
    ELSE Ok([num |-> a \div Gcd(a, b), den |-> b \div Gcd(a, b)])

\* The positions in the order given.
AsGiven(cands, left) == [i \in 1..Len(cands) |-> i]

\* The positions of the candidates, cheapest first, equal prices in the
\* order given.
RECURSIVE ByRatio(_, _)
ByRatio(cands, left) ==
    IF left = {} THEN <<>>
    ELSE LET i == CHOOSE i \in left : \A j \in left :
                      \/ cands[i].ratio < cands[j].ratio
                      \/ cands[i].ratio = cands[j].ratio /\ i <= j
         IN  <<i>> \o ByRatio(cands, left \ {i})

\* The walk over the candidates in `order`: each gives what is still
\* wanted, up to its max_output, at its price, and is a leg when it gives
\* something.
RECURSIVE Walk(_, _, _, _)
Walk(cands, order, remaining, legs) ==
    IF order = <<>> \/ remaining = 0 THEN legs
    ELSE LET c == cands[Head(order)]
             take == Min(remaining, c.max_output)
         IN  Walk(cands, Tail(order), remaining - take,
                  IF take = 0 THEN legs
                  ELSE Append(legs, [candidate |-> Head(order),
                                     output |-> take,
                                     input |-> take * c.ratio]))

RECURSIVE Sum(_, _)
Sum(legs, field) ==
    IF legs = <<>> THEN 0 ELSE Head(legs)[field] + Sum(Tail(legs), field)

\* simulate_buy_over_candidates(candidates, buy_target, price_cap) with the
\* price cap Float::max_positive_value(), which excludes no candidate.
simulate_buy_over_candidates(cands, buy_target) ==
    LET legs == Walk(cands, ByRatio(cands, 1..Len(cands)), buy_target, <<>>)
    IN  [legs |-> legs,
         total_input |-> Sum(legs, "input"),
         total_output |-> Sum(legs, "output")]

\* What the data source answers: the query fails, or finds no active order
\* of the pair, or some; the candidates are built of the orders found, which
\* fails or gives a list.
OrderAnswers == {"error", "none", "some"}

QuoteInputs ==
    {[output_amount |-> a, orders |-> o, candidates_fail |-> FALSE, candidates |-> <<>>] :
        a \in OutputAmounts, o \in OrderAnswers}
    \cup {[output_amount |-> a, orders |-> "some", candidates_fail |-> TRUE,
           candidates |-> <<>>] : a \in OutputAmounts}
    \cup {[output_amount |-> a, orders |-> "some", candidates_fail |-> FALSE,
           candidates |-> c] : a \in OutputAmounts, c \in CandidateLists}

EngineCall(name) == [call |-> name]

\* process_swap_quote from the simulation on, without the check that there
\* is a leg.
QuoteOfAnySimulation(in, sim, calls) ==
    LET ratio == div(sim.total_input, sim.total_output)
        divided == Append(calls, [call |-> "div", by |-> sim.total_output])
    IN  IF ~ratio.ok
        THEN [res |-> Err(Internal(Lit("failed to compute ratio"))), did |-> divided]
        ELSE [res |-> Ok([output_amount |-> in.output_amount,
                          estimated_input |-> sim.total_input,
                          estimated_io_ratio |-> ratio.val]),
              did |-> divided]

\* process_swap_quote from the simulation on: no leg is a 404, otherwise
\* the blended ratio is computed and the quote returned.
QuoteOfSimulation(in, sim, calls) ==
    IF sim.legs = <<>>
    THEN [res |-> Err(NotFound(Lit("no valid quotes available"))), did |-> calls]
    ELSE QuoteOfAnySimulation(in, sim, calls)

\* process_swap_quote, with its early returns in the order of its lines.
swap_quote(in) ==
    LET c1 == <<EngineCall("get_orders_for_pair")>>
        c2 == Append(c1, EngineCall("build_candidates_for_pair"))
        target == parse(in.output_amount)
    IN  IF in.orders = "error"
        THEN [res |-> Err(Internal(Lit("failed to query orders"))), did |-> c1]
        ELSE IF in.orders = "none"
        THEN [res |-> Err(NotFound(Lit("no liquidity found for this pair"))),
              did |-> c1]
        ELSE IF in.candidates_fail
        THEN [res |-> Err(Internal(Lit("failed to build order candidates"))),
              did |-> c2]
        ELSE IF in.candidates = <<>>
        THEN [res |-> Err(NotFound(Lit("no valid quotes available"))), did |-> c2]
        ELSE IF ~target.ok
        THEN [res |-> Err(BadRequest(Lit("invalid output_amount"))), did |-> c2]
        ELSE LET sim == simulate_buy_over_candidates(in.candidates, target.val)
             IN  QuoteOfSimulation(in, sim,
                     Append(c2, [call |-> "simulate_buy_over_candidates",
                                 legs |-> sim.legs,
                                 total_input |-> sim.total_input,
                                 total_output |-> sim.total_output]))

process_swap_quote(in) ==
    LET r == swap_quote(in)
    IN  Call("process_swap_quote", in, Render(r.res), r.did)

\* POST /v1/swap/calldata. enum RaindexError: the kinds map_raindex_error
\* names, and two of the others.
LiquidityErrors == {"NoLiquidity", "InsufficientLiquidity"}

ParameterErrors ==
    {"SameTokenPair", "NonPositiveAmount", "NegativePriceCap", "FromHexError", "Float"}

OtherErrors == {"TradesIndexingTimeout", "AnyOther"}

RaindexErrors ==
    {[kind |-> k, text |-> t] :
        k \in LiquidityErrors \cup ParameterErrors \cup OtherErrors, t \in ErrorTexts}

\* e.to_string().
to_string(e) == Lit(e.text)

\* Every kind but the liquidity ones is the caller's fault.
map_raindex_error_lenient(e) ==
    IF e.kind \in LiquidityErrors
    THEN NotFound(Lit("no liquidity found for this pair"))
    ELSE BadRequest(to_string(e))

\* fn map_raindex_error.
map_raindex_error(e) ==
    IF e.kind \in LiquidityErrors
    THEN NotFound(Lit("no liquidity found for this pair"))
    ELSE IF e.kind \in ParameterErrors
    THEN BadRequest(to_string(e))
    ELSE Internal(Lit("failed to generate calldata"))

\* What get_take_orders_calldata answers: an error, or a result with the
\* approval the taker has to give first, or with the take-orders payload
\* (whose expected sell formats or does not), or with neither.
CalldataAnswers ==
    {[state |-> "error", error |-> e, approval_info |-> None, take_orders_info |-> None] :
        e \in RaindexErrors}
    \cup {[state |-> "result", error |-> [kind |-> "", text |-> ""],
           approval_info |-> Some([spender |-> s, token |-> "token",
                                   formatted_amount |-> a,
                                   calldata |-> <<"approve calldata">>]),
           take_orders_info |-> None] :
              s \in {"orderbook", "router"}, a \in {"1.5", "2"}}
    \cup {[state |-> "result", error |-> [kind |-> "", text |-> ""],
           approval_info |-> None,
           take_orders_info |-> Some([orderbook |-> o, calldata |-> <<c>>,
                                      formats |-> f])] :
              o \in {"orderbook", "orderbook2"},
              c \in {"take calldata 1", "take calldata 2"}, f \in BOOLEAN}
    \cup {[state |-> "result", error |-> [kind |-> "", text |-> ""],
           approval_info |-> None, take_orders_info |-> None]}

\* The needed approval is answered with its calldata as the transaction.
get_calldata_sending_approval(answer) ==
    IF answer.state = "error" THEN Err(map_raindex_error(answer.error))
    ELSE IF IsSome(answer.approval_info)
    THEN LET approval_info == answer.approval_info[1]
         IN  Ok([to |-> approval_info.token, data |-> approval_info.calldata,
                 value |-> 0, estimated_input |-> approval_info.formatted_amount,
                 approvals |-> <<>>])
    ELSE Err(Internal(Lit("unexpected calldata result state")))

\* RaindexSwapDataSource::get_calldata.
get_calldata(answer) ==
    IF answer.state = "error" THEN Err(map_raindex_error(answer.error))
    ELSE IF IsSome(answer.approval_info)
    THEN LET approval_info == answer.approval_info[1]
         IN  Ok([to |-> approval_info.spender, data |-> <<>>, value |-> 0,
                 estimated_input |-> approval_info.formatted_amount,
                 approvals |-> <<[token |-> approval_info.token,
                                  spender |-> approval_info.spender,
                                  amount |-> approval_info.formatted_amount,
                                  symbol |-> "",
                                  approval_data |-> approval_info.calldata]>>])
    ELSE IF IsSome(answer.take_orders_info)
    THEN LET take_orders_info == answer.take_orders_info[1]
         IN  IF ~take_orders_info.formats
             THEN Err(Internal(Lit("failed to format expected sell")))
             ELSE Ok([to |-> take_orders_info.orderbook,
                      data |-> take_orders_info.calldata, value |-> 0,
                      estimated_input |-> "expected sell", approvals |-> <<>>])
    ELSE Err(Internal(Lit("unexpected calldata result state")))

\* process_swap_calldata: the take-orders request in mode BuyUpTo, then
\* ds.get_calldata.
process_swap_calldata(answer) ==
    Call("process_swap_calldata", answer, Render(get_calldata(answer)),
         <<[call |-> "get_take_orders_calldata", mode |-> "BuyUpTo"]>>)

\* GET /v1/order/{hash} and POST /v1/order/cancel.
MaxVaults == 2

\* formatted_balance() of a vault: a decimal string, or text that is none.
FormattedBalances == {"0.000000", "1.000000", "n/a"}

\* str::parse::<f64>() of the formatted balances, in millionths.
ParsedBalance == [b \in {"0.000000", "1.000000"} |->
                     IF b = "0.000000" THEN 0 ELSE 1000000]

\* balance_str.parse().unwrap_or(0.0).
balance(vault) ==
    IF vault.formatted_balance \in DOMAIN ParsedBalance
    THEN ParsedBalance[vault.formatted_balance] ELSE 0

Vaults(type) ==
    UNION {[1..n -> {[vault_id |-> type, token |-> type, formatted_balance |-> b] :
                         b \in FormattedBalances}] : n \in 0..MaxVaults}

\* A RaindexOrder: its vaults and the deployment its GUI meta names.
Orders ==
    {[orderbook |-> "orderbook", inputs |-> i, outputs |-> o, selected_deployment |-> d] :
        i \in Vaults("input"), o \in Vaults("output"), d \in {"st0x-DCA", ""}}

\* get_orders_by_hash: the query fails, or finds no order, or one.
OrderLookups == {Err("query")} \cup {Ok(<<>>)} \cup {Ok(<<o>>) : o \in Orders}

\* A RaindexOrderQuote: with data and its formatted ratio, or without.
Quotes == {[data |-> TRUE, formatted_ratio |-> "1.5"],
           [data |-> TRUE, formatted_ratio |-> "2.0"],
           [data |-> FALSE, formatted_ratio |-> ""]}

QuoteFetches ==
    {Err("quotes")} \cup {Ok(<<>>)} \cup {Ok(<<q>>) : q \in Quotes}
    \cup {Ok(<<[data |-> FALSE, formatted_ratio |-> ""],
               [data |-> TRUE, formatted_ratio |-> "1.5"]>>)}

TradeFetches ==
    {Err("trades"), Ok(<<>>), Ok(<<[id |-> "t1"]>>), Ok(<<[id |-> "t1"], [id |-> "t2"]>>)}

\* Result::unwrap_or_default() of a list.
unwrap_or_default(res) == IF res.ok THEN res.val ELSE <<>>

\* determine_order_type: Dca when the selected deployment of the GUI meta
\* contains "dca" in any case.
determine_order_type(order) ==
    IF order.selected_deployment = "st0x-DCA" THEN "Dca" ELSE "Solver"

\* build_order_detail.
build_order_detail(order, order_type, io_ratio, trades) ==
    IF order.inputs = <<>>
    THEN Err(Internal(Lit("order has no input vaults")))
    ELSE IF order.outputs = <<>>
    THEN Err(Internal(Lit("order has no output vaults")))
    ELSE Ok([order_details |-> [type |-> order_type, io_ratio |-> io_ratio],
             input_vault_id |-> order.inputs[1].vault_id,
             output_vault_id |-> order.outputs[1].vault_id,
             input_vault_balance |-> order.inputs[1].formatted_balance,
             output_vault_balance |-> order.outputs[1].formatted_balance,
             io_ratio |-> io_ratio,
             orderbook_id |-> order.orderbook,
             trades |-> trades])

\* The quotes fetched with `?` in place of unwrap_or_default().
get_order_propagating(in) ==
    IF ~in.orders.ok
    THEN [res |-> Err(Internal(Lit("failed to query orders"))),
          did |-> <<EngineCall("get_orders_by_hash")>>]
    ELSE IF in.orders.val = <<>>
    THEN [res |-> Err(NotFound(Lit("order not found"))),
          did |-> <<EngineCall("get_orders_by_hash")>>]
    ELSE IF ~in.quotes.ok
    THEN [res |-> Err(Internal(Lit("failed to query order quotes"))),
          did |-> <<EngineCall("get_orders_by_hash"), EngineCall("get_order_quotes")>>]
    ELSE LET order == in.orders.val[1]
             quotes == in.quotes.val
             io_ratio == IF quotes # <<>> /\ quotes[1].data
                         THEN quotes[1].formatted_ratio ELSE "-"
         IN  [res |-> build_order_detail(order, determine_order_type(order), io_ratio,
                                         unwrap_or_default(in.trades)),
              did |-> <<EngineCall("get_orders_by_hash"), EngineCall("get_order_quotes"),
                        EngineCall("get_order_trades")>>]

\* process_get_order.
get_order(in) ==
    IF ~in.orders.ok
    THEN [res |-> Err(Internal(Lit("failed to query orders"))),
          did |-> <<EngineCall("get_orders_by_hash")>>]
    ELSE IF in.orders.val = <<>>
    THEN [res |-> Err(NotFound(Lit("order not found"))),
          did |-> <<EngineCall("get_orders_by_hash")>>]
    ELSE LET order == in.orders.val[1]
             quotes == unwrap_or_default(in.quotes)
             io_ratio == IF quotes # <<>> /\ quotes[1].data
                         THEN quotes[1].formatted_ratio ELSE "-"
             trades == unwrap_or_default(in.trades)
         IN  [res |-> build_order_detail(order, determine_order_type(order), io_ratio,
                                         trades),
              did |-> <<EngineCall("get_orders_by_hash"), EngineCall("get_order_quotes"),
                        EngineCall("get_order_trades")>>]

GetOrderInputs ==
    {[orders |-> o, quotes |-> q, trades |-> t] :
        o \in OrderLookups, q \in QuoteFetches, t \in TradeFetches}

process_get_order(in) ==
    LET r == get_order(in)
    IN  Call("process_get_order", in, Render(r.res), r.did)

\* Every vault is withdrawn from.
AnyBalance(vault) == TRUE

\* if balance > 0.0.
Withdrawable(vault) == balance(vault) > 0

\* The loop over inputs.iter().chain(outputs.iter()).
RECURSIVE TokensReturned(_)
TokensReturned(vaults) ==
    IF vaults = <<>> THEN <<>>
    ELSE (IF Withdrawable(Head(vaults))
          THEN <<[token |-> Head(vaults).token,
                  amount |-> Head(vaults).formatted_balance]>>
          ELSE <<>>) \o TokensReturned(Tail(vaults))

\* process_cancel_order.
cancel_order(in) ==
    IF ~in.orders.ok
    THEN [res |-> Err(Internal(Lit("failed to query orders"))),
          did |-> <<EngineCall("get_orders_by_hash")>>]
    ELSE IF in.orders.val = <<>>
    THEN [res |-> Err(NotFound(Lit("order not found"))),
          did |-> <<EngineCall("get_orders_by_hash")>>]
    ELSE LET order == in.orders.val[1]
             calls == <<EngineCall("get_orders_by_hash"),
                        EngineCall("get_remove_calldata")>>
             returned == TokensReturned(order.inputs \o order.outputs)
         IN  IF ~in.calldata.ok
             THEN [res |-> Err(Internal(Lit("failed to get remove calldata"))),
                   did |-> calls]
             ELSE [res |-> Ok([transactions |-> <<[to |-> order.orderbook,
                                                    data |-> in.calldata.val,
                                                    value |-> 0]>>,
                               summary |-> [vaults_to_withdraw |-> Len(returned),
                                            tokens_returned |-> returned]]),
                   did |-> calls]

CancelInputs ==
    {[orders |-> o, calldata |-> c] :
        o \in OrderLookups, c \in {Err("calldata"), Ok("remove calldata")}}

process_cancel_order(in) ==
    LET r == cancel_order(in)
    IN  Call("process_cancel_order", in, Render(r.res), r.did)

\* GET /v1/trades/tx/{tx_hash}. The orderbooks of the registry and the
\* trades one orderbook holds for a transaction.
MaxOrderbooks == 2

MaxTradesPerOrderbook == 1

OrderHashes == {"h1", "h2"}

Owners == {"a1", "a2"}

\* A RaindexTrade: the order it filled.
TradeLists ==
    UNION {[1..n -> {[order_hash |-> h] : h \in OrderHashes}] :
              n \in 0..MaxTradesPerOrderbook}

\* What get_trades_for_transaction answers for one orderbook: its trades,
\* RaindexError::TradesIndexingTimeout, or another error.
TradeAnswers ==
    {[state |-> "trades", trades |-> t] : t \in TradeLists}
    \cup {[state |-> s, trades |-> <<>>] : s \in OtherErrors}

\* get_all_orderbooks fails, or gives the orderbooks, each with its answer.
OrderbookAnswers ==
    {Err("orderbooks")}
    \cup {Ok(a) : a \in UNION {[1..n -> TradeAnswers] : n \in 0..MaxOrderbooks}}

\* format!("transaction {tx_hash:#x} not yet indexed after {attempts} attempts").
NotYetIndexedMessage ==
    <<"transaction ", "tx_hash", " not yet indexed after ", "attempts", " attempts">>

\* The loop that asks every orderbook and keeps what the ones that answer
\* hold.
RECURSIVE QueryAllOrderbooks(_, _, _)
QueryAllOrderbooks(answers, all_trades, calls) ==
    IF answers = <<>> THEN [res |-> Ok(all_trades), did |-> calls]
    ELSE QueryAllOrderbooks(Tail(answers),
                            all_trades \o Head(answers).trades,
                            Append(calls, [call |-> "get_trades_for_transaction",
                                           orderbook |-> Len(calls)]))

\* The loop of get_trades_by_tx over orderbooks.values(): the first
\* orderbook that fails ends it.
RECURSIVE QueryOrderbooks(_, _, _)
QueryOrderbooks(answers, all_trades, calls) ==
    IF answers = <<>> THEN [res |-> Ok(all_trades), did |-> calls]
    ELSE LET asked == Append(calls, [call |-> "get_trades_for_transaction",
                                     orderbook |-> Len(calls)])
         IN  CASE Head(answers).state = "trades" ->
                      QueryOrderbooks(Tail(answers),
                                      all_trades \o Head(answers).trades, asked)
               [] Head(answers).state = "TradesIndexingTimeout" ->
                      [res |-> Err(NotYetIndexed(NotYetIndexedMessage)), did |-> asked]
               [] OTHER ->
                      [res |-> Err(Internal(Lit("failed to query trades"))), did |-> asked]

\* RaindexTradesDataSource::get_trades_by_tx.
get_trades_by_tx(orderbooks) ==
    IF ~orderbooks.ok
    THEN [res |-> Err(Internal(Lit("failed to get orderbooks"))),
          did |-> <<EngineCall("get_all_orderbooks")>>]
    ELSE QueryOrderbooks(orderbooks.val, <<>>, <<EngineCall("get_all_orderbooks")>>)

\* What get_orders_by_hash answers for one hash: the query fails, or finds
\* no order, or an order with its owner.
HashLookups ==
    {Err(Internal(Lit("failed to query orders"))), Ok(<<>>)}
    \cup {Ok(<<[owner |-> a]>>) : a \in Owners}

\* What can go wrong besides: the transaction's block number or timestamp
\* does not fit in u64, the Float arithmetic of the first trade or of the
\* totals fails.
TxFaults == {"none", "block_number", "timestamp", "trade", "totals"}

\* Every trade's hash, met before or not.
every_hash(hashes, met) == hashes

\* The hashes without the ones met before: .filter(|h| seen.insert(*h)).
RECURSIVE unique_hashes(_, _)
unique_hashes(hashes, met) ==
    IF hashes = <<>> THEN <<>>
    ELSE IF Head(hashes) \in met THEN unique_hashes(Tail(hashes), met)
    ELSE <<Head(hashes)>> \o unique_hashes(Tail(hashes), met \cup {Head(hashes)})

\* The loop over the trades: the owner of each trade's order from the
\* cache, then the trade's ratio.
RECURSIVE trade_entries(_, _, _)
trade_entries(trades, order_cache, fault) ==
    IF trades = <<>> THEN Ok(<<>>)
    ELSE LET hash == Head(trades).order_hash
         IN  IF order_cache[hash] = <<>>
             THEN Err(Internal(Lit("order not found for trade")))
             ELSE IF fault = "trade"
             THEN Err(Internal(Lit("float arithmetic error")))
             ELSE LET rest == trade_entries(Tail(trades), order_cache, "none")
                  IN  IF rest.ok
                      THEN Ok(<<[order_hash |-> hash,
                                 order_owner |-> order_cache[hash][1].owner]>>
                              \o rest.val)
                      ELSE rest

\* The inputs of a trades-by-tx request. The lookups and the faults matter
\* when there are trades.
TradesByTxInputs ==
    {[orderbooks |-> o, lookups |-> l, fault |-> f] :
        o \in OrderbookAnswers, l \in [OrderHashes -> HashLookups], f \in TxFaults}

HasTrades(in) ==
    LET got == get_trades_by_tx(in.orderbooks).res
    IN  got.ok /\ got.val # <<>>

NoLookups == [h \in OrderHashes |-> Ok(<<>>)]

\* process_get_trades_by_tx.
trades_by_tx(in) ==
    LET got == get_trades_by_tx(in.orderbooks)
    IN  IF ~got.res.ok THEN got
        ELSE IF got.res.val = <<>>
        THEN [res |-> Err(NotFound(Lit("transaction has no associated trades"))),
              did |-> got.did]
        ELSE IF in.fault = "block_number"
        THEN [res |-> Err(Internal(Lit("block number overflow"))), did |-> got.did]
        ELSE IF in.fault = "timestamp"
        THEN [res |-> Err(Internal(Lit("timestamp overflow"))), did |-> got.did]
        ELSE LET trades == got.res.val
                 hashes == unique_hashes([i \in 1..Len(trades) |-> trades[i].order_hash], {})
                 calls == got.did \o [i \in 1..Len(hashes) |->
                                         [call |-> "get_orders_by_hash", hash |-> hashes[i]]]
                 order_results == collect([i \in 1..Len(hashes) |-> in.lookups[hashes[i]]])
             IN  IF ~order_results.ok THEN [res |-> order_results, did |-> calls]
                 ELSE LET order_cache == [h \in {hashes[i] : i \in 1..Len(hashes)} |->
                                             in.lookups[h].val]
                          entries == trade_entries(trades, order_cache, in.fault)
                      IN  IF ~entries.ok THEN [res |-> entries, did |-> calls]
                          ELSE IF in.fault = "totals"
                          THEN [res |-> Err(Internal(Lit("float arithmetic error"))),
                                did |-> calls]
                          ELSE [res |-> Ok([tx_hash |-> "tx_hash",
                                            trades |-> entries.val]),
                                did |-> calls]

\* RaindexTradesDataSource::get_trades_by_tx, called on its own: its caller
\* gets the Result.
call_get_trades_by_tx(orderbooks) ==
    LET r == get_trades_by_tx(orderbooks)
    IN  Call("get_trades_by_tx", orderbooks, Returned(r.res), r.did)

\* GET /v1/trades/tx/{tx_hash}: process_get_trades_by_tx.
process_get_trades_by_tx(in) ==
    LET r == trades_by_tx(in)
    IN  /\ HasTrades(in) \/ (in.lookups = NoLookups /\ in.fault = "none")
        /\ Call("process_get_trades_by_tx", in, Render(r.res), r.did)

\* GET /v1/trades/{address}.
\* Option::unwrap_or.
unwrap_or(option, default) == IF IsSome(option) THEN option[1] ELSE default

\* params.page.unwrap_or(1), params.page_size.unwrap_or(20).
DefaultPage == 1

DefaultPageSize == 20

\* The largest page_size the query is accepted with.
MaxPageSize == 100

\* The largest value of the engine's page and page_size: u16::MAX.
U16Max == 65535

\* The largest page asked for, and the most trades of the owner one
\* orderbook holds.
MaxPage == 3

MaxOwnerTrades == 3

\* TradesPaginationParams of the query string.
PaginationParams ==
    {[page |-> p, page_size |-> s] :
        p \in {None} \cup {Some(n) : n \in 0..MaxPage} \cup {Some(U16Max + 1)},
        s \in {None} \cup {Some(n) : n \in {0, 1, 2, MaxPageSize, MaxPageSize + 1}}}

\* The query is accepted: page >= 1 and page_size in [1, 100] where given.
ValidPagination(params) ==
    /\ IsSome(params.page) => params.page[1] >= 1
    /\ IsSome(params.page_size) =>
           params.page_size[1] >= 1 /\ params.page_size[1] <= MaxPageSize

\* The answer to a query that is not accepted.
InvalidPagination == Response(400, "BAD_REQUEST", Lit("invalid pagination"), <<>>)

\* What one orderbook holds for the owner: a number of trades, or its
\* query fails.
OwnerAnswers ==
    {[state |-> "trades", total |-> n] : n \in 0..MaxOwnerTrades}
    \cup {[state |-> "AnyOther", total |-> 0]}

OwnerOrderbooks ==
    {Err("orderbooks")}
    \cup {Ok(a) : a \in UNION {[1..n -> OwnerAnswers] : n \in 0..MaxOrderbooks}}

\* RaindexClient::get_trades_for_owner of one orderbook: the trades of the
\* page, at most page_size of them, and the count of all the owner's trades
\* there.
owner_trades_page(orderbook, total, page, page_size) ==
    LET skipped == (page - 1) * page_size
        left == IF total > skipped THEN total - skipped ELSE 0
        count == IF left < page_size THEN left ELSE page_size
    IN  [trades |-> [j \in 1..count |-> [orderbook |-> orderbook, index |-> skipped + j]],
         total_count |-> total]

\* The loop of get_trades_for_owner over orderbooks.values(): every
\* orderbook gets the same pagination.
RECURSIVE QueryOwners(_, _, _, _, _, _)
QueryOwners(answers, page, page_size, all_trades, total_count, calls) ==
    IF answers = <<>>
    THEN [res |-> Ok([trades |-> all_trades, total_count |-> total_count]), did |-> calls]
    ELSE LET asked == Append(calls, [call |-> "get_trades_for_owner",
                                     orderbook |-> Len(calls),
                                     page |-> page, page_size |-> page_size])
         IN  IF Head(answers).state # "trades"
             THEN [res |-> Err(Internal(Lit("failed to query trades"))), did |-> asked]
             ELSE LET result == owner_trades_page(Len(calls), Head(answers).total,
                                                  page, page_size)
                  IN  QueryOwners(Tail(answers), page, page_size,
                                  all_trades \o result.trades,
                                  total_count + result.total_count, asked)

\* RaindexTradesDataSource::get_trades_for_owner.
get_trades_for_owner(orderbooks, page, page_size) ==
    IF ~orderbooks.ok
    THEN [res |-> Err(Internal(Lit("failed to get orderbooks"))),
          did |-> <<EngineCall("get_all_orderbooks")>>]
    ELSE QueryOwners(orderbooks.val, page, page_size, <<>>, 0,
                     <<EngineCall("get_all_orderbooks")>>)

\* u64::div_ceil.
div_ceil(a, b) == (a + b - 1) \div b

\* total_pages that counts the full pages only.
full_pages(total_trades, page_size) ==
    IF page_size > 0 THEN total_trades \div page_size ELSE 0

\* let total_pages = if page_size > 0 { .. } else { 0 }.
total_pages(total_trades, page_size) ==
    IF page_size > 0 THEN div_ceil(total_trades, page_size) ELSE 0

\* What can go wrong in a trade: its timestamp or its block number does
\* not fit in u64.
AddressFaults == {"none", "timestamp", "block_number"}

TradesByAddressInputs ==
    {[params |-> p, orderbooks |-> o, fault |-> f] :
        p \in PaginationParams, o \in OwnerOrderbooks, f \in AddressFaults}

\* process_get_trades_by_address.
trades_by_address(in) ==
    LET page == unwrap_or(in.params.page, DefaultPage)
        page_size == unwrap_or(in.params.page_size, DefaultPageSize)
        got == get_trades_for_owner(in.orderbooks, page, page_size)
    IN  IF page > U16Max
        THEN [res |-> Err(BadRequest(Lit("page value too large"))), did |-> <<>>]
        ELSE IF page_size > U16Max
        THEN [res |-> Err(BadRequest(Lit("page_size value too large"))), did |-> <<>>]
        ELSE IF ~got.res.ok THEN got
        ELSE IF got.res.val.trades # <<>> /\ in.fault = "timestamp"
        THEN [res |-> Err(Internal(Lit("timestamp overflow"))), did |-> got.did]
        ELSE IF got.res.val.trades # <<>> /\ in.fault = "block_number"
        THEN [res |-> Err(Internal(Lit("block number overflow"))), did |-> got.did]
        ELSE LET total_trades == got.res.val.total_count
                 pages == total_pages(total_trades, page_size)
             IN  [res |-> Ok([trades |-> got.res.val.trades,
                              pagination |-> [page |-> page,
                                              page_size |-> page_size,
                                              total_trades |-> total_trades,
                                              total_pages |-> pages,
                                              has_more |-> page < pages]]),
                  did |-> got.did]

\* GET /v1/trades/{address}: the query guard, then
\* process_get_trades_by_address.
get_trades_by_address(in) ==
    LET r == trades_by_address(in)
    IN  IF ValidPagination(in.params)
        THEN Call("get_trades_by_address", in, Render(r.res), r.did)
        ELSE Call("get_trades_by_address", in, InvalidPagination, <<>>)

\* Process start (serve). The settings table's registry_url row before the
\* process starts is absent or holds a URL stored by an earlier run (only
\* non-empty URLs are ever written), and the config file's registry_url may
\* be the empty string.
StoredUrls == {None, Some("u1"), Some("bad")}

ConfigUrls == {"", InitUrl, "bad"}

\* What the start depends on: the row, whether the SELECT and the INSERT of
\* db::settings succeed, the config file, and whether Rocket can be built.
StartInputs ==
    [stored : StoredUrls, read_ok : BOOLEAN, config_url : ConfigUrls,
     write_ok : BOOLEAN, build_ok : BOOLEAN]

\* db::settings::get_setting: the row, or the database's error.
get_setting(stored, read_ok) ==
    IF read_ok THEN Ok(stored) ELSE Err("sqlx")

\* Result<Option<String>, _>::ok().flatten(): an error becomes None.
ok_flatten(res) == IF res.ok THEN res.val ELSE None

\* db::settings::set_setting: the row after the upsert, or the row as it
\* was with the database's error.
set_setting(stored, value, write_ok) ==
    IF write_ok THEN [res |-> Ok(<<>>), row |-> Some(value)]
    ELSE [res |-> Err("sqlx"), row |-> stored]

\* RaindexProvider::load awaited to its end: the provider, or the error of
\* a registry that cannot be fetched or parsed.
load(url) ==
    IF url \in BadUrls THEN Err("RegistryLoad") ELSE Ok(Provider(url))

\* How a start ends: exit is the process's exit code, None while the server
\* runs; cell is the provider handed to Rocket when it was launched, row is
\* the settings table's registry_url after the start.
Started(exit, url, row, provider) ==
    [exit |-> exit, registry_url |-> url, row |-> row, cell |-> provider]

\* main, Command::Serve: the URL from the database, else from the config
\* file (seeding the database, a failure of which is only logged), else
\* exit(1); the provider's load, or exit(1); Rocket's build, or exit(1);
\* launch.
serve(in) ==
    LET db_url == ok_flatten(get_setting(in.stored, in.read_ok))
    IN  IF IsSome(db_url) /\ db_url[1] # ""
        THEN [url |-> Some(db_url[1]), row |-> in.stored,
              did |-> <<"get_setting">>]
        ELSE IF in.config_url # ""
        THEN [url |-> Some(in.config_url),
              row |-> set_setting(in.stored, in.config_url, in.write_ok).row,
              did |-> <<"get_setting", "set_setting">>]
        ELSE [url |-> None, row |-> in.stored, did |-> <<"get_setting">>]

main(in) ==
    LET chosen == serve(in)
    IN  IF ~IsSome(chosen.url)
        THEN Call("main", in,
                  Returned(Started(Some(1), None, chosen.row, None)),
                  chosen.did)
        ELSE LET raindex_config == load(chosen.url[1])
                 calls == Append(chosen.did, "load")
             IN  IF ~raindex_config.ok
                 THEN Call("main", in,
                           Returned(Started(Some(1), chosen.url, chosen.row,
                                            None)),
                           calls)
                 ELSE IF ~in.build_ok
                 THEN Call("main", in,
                           Returned(Started(Some(1), chosen.url, chosen.row,
                                            None)),
                           Append(calls, "rocket"))
                 ELSE Call("main", in,
                           Returned(Started(None, chosen.url, chosen.row,
                                            Some(raindex_config.val))),
                           Append(Append(calls, "rocket"), "launch"))

\* No handler has run yet.
Idle == called = "none"

\* Every handler, run on its own.
HandlerNext ==
    \/ Idle /\ \E e \in RaisedErrors : RespondTo(e)
    \/ Idle /\ \E h \in AuthHeaders : from_request(h)
    \/ Idle /\ \E e \in ProviderErrors : ProviderFails(e)
    \/ Idle /\ \E in \in QuoteInputs : process_swap_quote(in)
    \/ Idle /\ \E answer \in CalldataAnswers : process_swap_calldata(answer)
    \/ Idle /\ \E in \in GetOrderInputs : process_get_order(in)
    \/ Idle /\ \E in \in CancelInputs : process_cancel_order(in)
    \/ Idle /\ \E in \in DeployInputs(DcaSteps(BothVaultIds)) : process_deploy_dca(in)
    \/ Idle /\ \E in \in DeployInputs(SolverSteps(BothVaultIds)) : process_deploy_solver(in)
    \/ Idle /\ \E args \in TransactionArgs : call_map_deployment_to_response(args)
    \/ Idle /\ \E orderbooks \in OrderbookAnswers : call_get_trades_by_tx(orderbooks)
    \/ Idle /\ \E in \in TradesByTxInputs : process_get_trades_by_tx(in)
    \/ Idle /\ \E in \in TradesByAddressInputs : get_trades_by_address(in)
    \/ Idle /\ \E in \in StartInputs : main(in)

HandlerSpec == Init /\ [][HandlerNext]_vars

----------------------------------------------------------------------------
\* Properties

Gets == {r \in Reqs : kind[r] = "get"}
Puts == {r \in Reqs : kind[r] = "put"}
Calls == {r \in Reqs : kind[r] \in Bridged}

InQueue(r) == \E i \in 1..Len(waitq) : waitq[i] = r

\* The URLs that were ever in the cell: the one of startup and the one of
\* every PUT that overwrote the cell.
Installed ==
    {InitUrl} \cup {resp[p].url : p \in {q \in Puts : pc[q] = "done"
                                                      /\ resp[q].status = 200}}

\* C1: whatever the interleaving of GET /registry and PUT /admin/registry,
\* every GET answers 200 with a URL that was in the cell: the startup URL
\* or the URL of a PUT that swapped; never an empty, partial or
\* never-installed one.
C1_GetReturnsInstalledUrl ==
    \A g \in Gets :
        pc[g] = "done" =>
            /\ resp[g].status = 200
            /\ resp[g].url \in Installed
            /\ resp[g].url \notin {""} \cup BadUrls

\* A GET that arrived before the swap of a PUT and answered the PUT's URL.
C1_Witness ==
    \E g \in Gets :
        /\ pc[g] = "done" /\ seen[g] = {}
        /\ resp[g].url \in GoodUrls
        /\ \E p \in Puts : lastPut = {p} /\ resp[p].url = resp[g].url

\* The loader of PUT p reported a failure and the handler has not yet
\* looked at it.
LoadFailed(p) ==
    kind[p] = "put" /\ pc[p] = "loading" /\ chan[p].tag \in {"api", "rt", "closed"}

\* C2: when the loader fails the PUT answers 400; the request neither holds
\* nor waits for the exclusive guard at any point up to its answer, the
\* settings are not written and the cell holds the previous provider.
C2_LoadFailureLeavesAllUntouched ==
    /\ [](\A p \in Puts : pc[p] = "loading" =>
              p \notin writer /\ ~InQueue(p) /\ db[p] = "none")
    /\ [][\A p \in Reqs :
              (LoadFailed(p) /\ pc'[p] \notin {"loading", "cancelled"}) =>
                  /\ pc'[p] = "done"
                  /\ resp'[p].status = 400
                  /\ resp'[p].msg = "failed to load registry"
                  /\ cell' = cell
                  /\ settings' = settings
                  /\ writer' = writer
                  /\ waitq' = waitq
                  /\ db'[p] = "none"]_vars

\* A PUT whose loader failed was answered, and the cell and the settings
\* are those of startup.
C2_Witness ==
    \E p \in Puts :
        /\ pc[p] = "done" /\ resp[p].status = 400
        /\ resp[p].msg = "failed to load registry"
        /\ cell = Provider(InitUrl) /\ settings = InitUrl

\* C3: when the settings write fails the PUT answers Internal (500), the
\* cell is not overwritten, and the exclusive guard is released: the lock
\* passes to the head of the queue, or is free when nobody waits.
C3_PersistFailureReleases ==
    /\ [](\A p \in Puts : (pc[p] = "persisting" /\ db[p] = "err") =>
              writer = {p} /\ cell # Torn)
    /\ [][\A p \in Reqs :
              /\ (pc[p] = "lock" /\ pc'[p] = "persisting" /\ db'[p] = "err") =>
                     settings' = settings /\ cell' = cell
              /\ (pc[p] = "persisting" /\ db[p] = "err" /\ pc'[p] = "done") =>
                     /\ resp'[p].status = 500
                     /\ resp'[p].err = "Internal"
                     /\ resp'[p].msg = "failed to persist setting"
                     /\ cell' = cell
                     /\ settings' = settings
                     /\ p \notin writer'
                     /\ IF waitq = <<>>
                        THEN writer' = {} /\ readers' = {}
                        ELSE Head(waitq) \in readers' \cup writer']_vars

\* A PUT answered 500 for the failed write and a request that queued
\* behind it holds the lock.
C3_Witness ==
    \E p \in Puts :
        /\ pc[p] = "done" /\ resp[p].status = 500
        /\ resp[p].msg = "failed to persist setting"
        /\ \E q \in Reqs \ {p} : q \in readers \cup writer /\ seen[q] = {}
        /\ cell = Provider(InitUrl)

\* C4: a PUT with a valid non-admin credential answers 403 whatever its
\* body; the cell and the persisted registry_url are unchanged and the
\* loader is never invoked for it.
C4_NonAdminPutForbidden ==
    /\ [](\A p \in Puts : cred[p] = "user" =>
              /\ pc[p] = "done" /\ resp[p].status = 403
              /\ wk[p] = "none" /\ p \notin writer /\ ~InQueue(p))
    /\ [][\A p \in Reqs :
              (pc[p] = "idle" /\ kind'[p] = "put" /\ cred'[p] = "user") =>
                  /\ cell' = cell
                  /\ settings' = settings
                  /\ acc' = acc
                  /\ wk' = wk]_vars

\* A non-admin PUT whose body names a loadable registry was answered 403.
C4_Witness ==
    \E p \in Puts :
        /\ cred[p] = "user" /\ body[p] \in GoodUrls
        /\ pc[p] = "done" /\ resp[p].status = 403

\* C5: when an admin PUT with a loadable URL u answers 200, the answer
\* carries u, the settings hold registry_url = u and the cell holds the
\* provider of u; every GET that arrived after that PUT completed and reads
\* the cell before a later PUT overwrote it answers u.
C5_SuccessfulPutIsVisible ==
    /\ [](\A p \in Puts : (pc[p] = "done" /\ resp[p].status = 200) =>
              /\ cred[p] = "admin"
              /\ body[p] \in GoodUrls
              /\ resp[p].url = body[p])
    /\ [][\A p \in Reqs :
              (pc[p] = "writing" /\ pc'[p] = "done") =>
                  /\ resp'[p].status = 200
                  /\ resp'[p].url = body[p]
                  /\ settings' = body[p]
                  /\ registry_url(cell') = body[p]]_vars
    /\ [][\A g \in Reqs :
              (/\ kind[g] = "get" /\ pc[g] = "lock" /\ pc'[g] = "done"
               /\ seen[g] # {} /\ lastPut = seen[g]) =>
                  \A p \in seen[g] :
                      resp'[g].status = 200 /\ resp'[g].url = resp[p].url]_vars

\* A GET that arrived after a PUT was answered 200 answered the PUT's URL.
C5_Witness ==
    \E g \in Gets : \E p \in Puts :
        /\ seen[g] = {p} /\ lastPut = {p}
        /\ pc[p] = "done" /\ resp[p].status = 200
        /\ pc[g] = "done" /\ resp[g].url = body[p]
        /\ settings = body[p]

\* C6: the cell is not overwritten while a shared guard is held; a request
\* that dispatched an engine call under the guard holds the guard for as
\* long as it awaits the call, and the registry its call works on is the
\* one in the cell; a writer never holds the lock with a reader; a new
\* reader is admitted at once whenever no writer holds or waits, however
\* many readers hold.
C6_GuardPinsProvider ==
    /\ [](writer # {} => readers = {})
    /\ [](cell = Torn => (readers = {} /\ writer # {}))
    /\ [](\A r \in Reqs : (kind[r] = "call" /\ pc[r] = "await") =>
              r \in readers /\ wreg[r] = cell.registry)
    /\ [][readers # {} => cell' = cell]_vars
    /\ [][\A r \in Reqs :
              (/\ pc[r] = "idle" /\ kind'[r] \in {"get", "call"}
               /\ writer = {} /\ waitq = <<>>) =>
                  readers' = readers \cup {r}]_vars

\* An engine call is in flight under the shared guard and a PUT that has
\* loaded its provider waits for the guard to be dropped.
C6_Witness ==
    \E r \in Reqs : \E p \in Puts :
        /\ kind[r] = "call" /\ pc[r] = "await" /\ wk[r] = "running"
        /\ pc[p] = "lock" /\ InQueue(p)
        /\ cell = Provider(InitUrl)

\* C7: the closure of a bridge call runs at most once; the caller gets one
\* outcome and it is never changed: the closure's own value when the worker
\* delivered it, else the error of what happened (executor not built,
\* client not derivable, WorkerPanicked when the sender went away unsent);
\* no retry, and no value the closure did not produce.
C7_OneOutcomePerCall ==
    /\ [](\A r \in Reqs : runs[r] <= 1 /\ resp[r].val \subseteq ClosureValue(r))
    /\ [][\A r \in Reqs :
              (kind[r] \in Bridged /\ pc[r] = "await" /\ pc'[r] = "done") =>
                  CASE chan[r].tag = "ok" ->
                         /\ runs[r] = 1
                         /\ resp'[r].status = 200
                         /\ resp'[r].val = ClosureValue(r)
                         /\ resp'[r].err = ""
                    [] chan[r].tag = "closed" ->
                         /\ runs[r] = 1
                         /\ resp'[r].val = {}
                         /\ resp'[r].err = "WorkerPanicked"
                    [] chan[r].tag = "rt" ->
                         /\ runs[r] = 0
                         /\ resp'[r].val = {}
                         /\ resp'[r].err \in {"ClientRuntimeInit",
                                              "RegistryRuntimeInit"}
                    [] chan[r].tag = "api" ->
                         /\ runs[r] = 0
                         /\ kind[r] = "call"
                         /\ resp'[r].val = {}
                         /\ resp'[r].err = "ClientInit"
                    [] OTHER -> FALSE]_vars
    /\ [][\A r \in Reqs :
              /\ pc[r] = "done" => (pc'[r] = "done" /\ resp'[r] = resp[r])
              /\ (pc[r] = "await" /\ pc'[r] = "await") =>
                     wk'[r] \notin {"spawned"} \/ wk[r] = "spawned"]_vars

\* One bridge call returned its closure's value and another returned
\* WorkerPanicked after its closure ran once and panicked.
C7_Witness ==
    \E r \in Calls : \E q \in Calls :
        /\ pc[r] = "done" /\ resp[r].val = ClosureValue(r)
        /\ pc[q] = "done" /\ resp[q].err = "WorkerPanicked"

\* A request awaits the one-shot of a worker it spawned.
Awaiting(r) == pc[r] \in {"await", "loading"}

\* C8: under fair scheduling every bridge call whose closure terminates,
\* normally or by panic, returns to its caller (unless the caller is
\* cancelled first); and in no state do a caller and its worker wait for
\* each other: while the caller awaits, the answer is in the channel or
\* its worker has a step to take or is inside a closure that never ends.
C8_BridgeCallReturns ==
    /\ [](\A r \in Reqs : Awaiting(r) =>
              \/ chan[r].tag # "empty"
              \/ wk[r] \in {"spawned", "running", "hung"})
    /\ \A r \in Reqs :
           Awaiting(r) ~> (pc[r] \in {"lock", "done", "cancelled"} \/ wk[r] = "hung")

\* A call whose closure panicked returned to its caller, and the PUT that
\* waited behind the caller's guard got the lock.
C8_Witness ==
    \E r \in Calls : \E p \in Puts :
        /\ pc[r] = "done" /\ resp[r].err = "WorkerPanicked"
        /\ writer = {p}

\* C9: when the caller of a bridge call is cancelled while its worker
\* runs, the worker still runs the closure (once) and ends; its send
\* changes nothing, since the receiver is gone: no response is made of it,
\* for the cancelled request or any other.
C9_CancelledCallerDetachesWorker ==
    /\ [](\A r \in Reqs : resp[r].val \subseteq {r})
    /\ [](\A r \in Reqs : pc[r] = "cancelled" => resp[r] = NoResp)
    /\ [][\A r \in Reqs :
              (pc[r] = "cancelled" /\ wk'[r] # wk[r]) =>
                  /\ pc'[r] = "cancelled"
                  /\ chan' = chan
                  /\ resp' = resp
                  /\ pc' = pc
                  /\ (wk[r] = "running" /\ kind[r] \in Bridged
                         /\ ClientDerivable(wreg[r])) =>
                        (runs'[r] = runs[r] + 1 /\ wk'[r] \in {"exited", "hung"})]_vars
    /\ \A r \in Reqs :
           (pc[r] = "cancelled" /\ wk[r] \in {"spawned", "running"})
               ~> (wk[r] \in {"exited", "hung"})

\* A caller was cancelled before its worker sent anything; the worker ran
\* the closure once and ended, and the channel holds no message.
C9_Witness ==
    \E r \in Calls :
        /\ pc[r] = "cancelled" /\ chan[r].tag = "rxdropped"
        /\ wk[r] = "exited" /\ runs[r] = 1

WorkerStep(r) ==
    /\ wk[r] \in {"spawned", "running"}
    /\ wk'[r] \in {"running", "exited", "hung"}
    /\ wk'[r] # wk[r]

\* C11: each bridge call has its own worker and its own one-shot channel:
\* a step of one call's worker (its closure returning, panicking or never
\* returning) changes nothing of any other call; a caller gets
\* WorkerPanicked only when its own closure panicked; a call whose own
\* worker delivered gets the value of its own closure, whatever became of
\* the other calls.
C11_CallsAreIsolated ==
    /\ [](\A q \in Reqs : chan[q].tag = "ok" => chan[q].val \in {{}, ClosureValue(q)})
    /\ [][\A r \in Reqs : WorkerStep(r) =>
              \A q \in Reqs \ {r} :
                  /\ chan'[q] = chan[q]
                  /\ wk'[q] = wk[q]
                  /\ runs'[q] = runs[q]
                  /\ resp'[q] = resp[q]
                  /\ pc'[q] = pc[q]]_vars
    /\ [][\A q \in Reqs :
              (kind[q] \in Bridged /\ pc[q] = "await" /\ pc'[q] = "done") =>
                  /\ (resp'[q].err = "WorkerPanicked") =
                         (chan[q].tag = "closed" /\ runs[q] = 1)
                  /\ (chan[q].tag = "ok") =>
                         (resp'[q].status = 200 /\ resp'[q].val = ClosureValue(q))]_vars

\* The closure of one call never returns and its caller still waits, while
\* a call that arrived later was answered with its own closure's value.
C11_Witness ==
    \E r \in Calls : \E q \in Calls :
        /\ r < q
        /\ wk[r] = "hung" /\ pc[r] = "await"
        /\ pc[q] = "done" /\ resp[q].val = ClosureValue(q)

\* C12: when no client can be derived from the registry, run_with_client
\* does not invoke the closure, and the request ends 500 INTERNAL_ERROR
\* "failed to initialize orderbook client".
C12_ClientInitIs500 ==
    /\ [](\A r \in Reqs : (kind[r] = "call" /\ wk[r] # "none"
                              /\ ~ClientDerivable(wreg[r])) => runs[r] = 0)
    /\ [][\A r \in Reqs :
              (/\ kind[r] = "call" /\ pc[r] = "await" /\ pc'[r] = "done"
               /\ ~ClientDerivable(wreg[r]) /\ chan[r].tag # "rt") =>
                  /\ chan[r].tag = "api"
                  /\ runs[r] = 0
                  /\ resp'[r].status = 500
                  /\ ErrorCode(resp'[r].status) = "INTERNAL_ERROR"
                  /\ resp'[r].err = "ClientInit"
                  /\ resp'[r].msg = "failed to initialize orderbook client"
                  /\ resp'[r].val = {}]_vars

\* A call dispatched on a registry from which no client can be derived was
\* answered 500 with that message.
C12_Witness ==
    \E r \in Reqs :
        /\ kind[r] = "call" /\ pc[r] = "done"
        /\ resp[r].status = 500
        /\ resp[r].msg = "failed to initialize orderbook client"
        /\ ~ClientDerivable(cell.registry)

\* The number of characters of a header value.
RECURSIVE CharCount(_)
CharCount(v) == IF v = <<>> THEN 0 ELSE Head(v).n + CharCount(Tail(v))

\* A value that is non-empty, at most 128 characters, ASCII and free of
\* control characters.
ValidId(v) ==
    /\ v # <<>>
    /\ CharCount(v) <= MaxIdLen
    /\ \A i \in 1..Len(v) : IsAscii(v[i].c) /\ ~IsControl(v[i].c)

\* t is v without its leading and trailing white space.
IsTrimOf(t, v) ==
    \E i \in 1..(Len(v) + 1) : \E j \in 0..Len(v) :
        /\ t = SubSeq(v, i, j)
        /\ \A k \in 1..Len(v) : (k < i \/ k > j) => IsWhitespace(v[k].c)
        /\ t # <<>> => (~IsWhitespace(t[1].c) /\ ~IsWhitespace(t[Len(t)].c))

TrimsOf(v) ==
    {t \in {SubSeq(v, i, j) : i \in 1..(Len(v) + 1), j \in 0..Len(v)} : IsTrimOf(t, v)}

\* C13 as stated: the response's X-Request-Id is the request's header
\* value itself when that value is non-empty, at most 128 characters,
\* ASCII and free of control characters, and a fresh UUID otherwise or when
\* the header is absent.
C13_EchoesHeaderAsSent ==
    idpc = "stamped" =>
        respId = IF reqId.present /\ ValidId(reqId.value)
                 THEN reqId.value ELSE NewUuid

\* C13: with t the header value without its leading and trailing white
\* space, the response's X-Request-Id is t when t is non-empty, at most
\* 128 bytes, ASCII and free of control characters, and a fresh UUID
\* otherwise or when the header is absent.
C13_EchoesTrimmedHeader ==
    idpc = "stamped" =>
        IF reqId.present /\ \E t \in TrimsOf(reqId.value) : ValidId(t)
        THEN respId \in TrimsOf(reqId.value) /\ ValidId(respId)
        ELSE respId = NewUuid

\* A header value of the longest valid id with white space around it was
\* answered with the id alone.
C13_Witness ==
    /\ idpc = "stamped" /\ reqId.present
    /\ respId # NewUuid /\ respId # reqId.value
    /\ CharCount(respId) = MaxIdLen
    /\ CharCount(reqId.value) > MaxIdLen

\* The stages in the order of the handler template.
StageSequence == <<"global", "auth", "perkey", "gate", "body", "dispatch">>

\* The stages a route has.
HasStage(rt, st) ==
    IF st = "global" THEN HasGlobalGuard(rt)
    ELSE IF st \in {"auth", "perkey"} THEN NeedsAuth(rt)
    ELSE IF st = "gate" THEN AdminOnly(rt)
    ELSE IF st = "body" THEN HasPayload(rt)
    ELSE CallsEngine(rt)

RECURSIVE Keep(_, _)
Keep(rt, ss) ==
    IF ss = <<>> THEN <<>>
    ELSE IF HasStage(rt, Head(ss)) THEN <<Head(ss)>> \o Keep(rt, Tail(ss))
    ELSE Keep(rt, Tail(ss))

RouteStages(rt) == Keep(rt, StageSequence)

IsPrefix(a, b) == Len(a) <= Len(b) /\ a = SubSeq(b, 1, Len(a))

Answered(r) == gpc[r] = "done"

\* The stage that answered request r.
LastStage(r) == trail[r][Len(trail[r])]

\* The status the stage that answered gives when it fails.
FailureStatus(st) ==
    IF st \in {"global", "perkey"} THEN 429
    ELSE IF st = "auth" THEN 401
    ELSE IF st = "gate" THEN 403
    ELSE 400

\* C14: the stages of a request run in the order global rate limit,
\* authentication, per-credential rate limit, admin gate, body validation,
\* engine dispatch; the first stage that fails answers, so a request
\* without valid credentials that got past the global limit gets 401 and a
\* non-admin request to an admin route that got past the rate limits gets
\* 403, whatever its body; a request answered by an earlier stage made no
\* engine call or registry load.
C14_FirstFailingStageAnswers ==
    \A r \in Reqs :
        /\ IsPrefix(trail[r], RouteStages(route[r]))
        /\ Answered(r) /\ out[r].status # 200 =>
               /\ trail[r] # <<>>
               /\ out[r].status = FailureStatus(LastStage(r))
               /\ \A i \in 1..Len(trail[r]) : trail[r][i] # "dispatch"
        /\ Answered(r) /\ out[r].status = 200 =>
               trail[r] = RouteStages(route[r])
        /\ Answered(r) =>
               /\ \A i \in 1..Len(trail[r]) :
                      /\ trail[r][i] = "auth" /\ i < Len(trail[r])
                             => Verify(authz[r])
                      /\ trail[r][i] = "gate" /\ i < Len(trail[r])
                             => is_admin(authz[r])
                      /\ trail[r][i] = "body" /\ i < Len(trail[r])
                             => payload[r] = "ok"
               /\ LastStage(r) = "auth" /\ out[r].status = 401
                      <=> NeedsAuth(route[r]) /\ ~Verify(authz[r])
                              /\ "global" \in spent[r] \cup
                                     (IF HasGlobalGuard(route[r]) THEN {} ELSE {"global"})
               /\ LastStage(r) = "gate" /\ out[r].status = 403
                      <=> AdminOnly(route[r]) /\ Verify(authz[r])
                              /\ ~is_admin(authz[r])
                              /\ authz[r].key \in spent[r]
                              /\ "global" \in spent[r]
               /\ LastStage(r) = "body" /\ out[r].status = 400
                      => payload[r] = "bad"

\* A non-admin request with an invalid body to the admin route got 403, and
\* one without valid credentials and with an invalid body got 401.
C14_Witness ==
    \E r, q \in Reqs :
        /\ Answered(r) /\ route[r] = "admin" /\ payload[r] = "bad"
        /\ out[r].status = 403
        /\ Answered(q) /\ payload[q] = "bad" /\ out[q].status = 401

\* The buckets there are, their contents and their capacities.
Made(b) == b = "global" \/ perKey[b].made

Tokens(b) == IF b = "global" THEN global.tokens ELSE perKey[b].tokens

Last(b) == IF b = "global" THEN global.last ELSE perKey[b].last

Capacity(b) == IF b = "global" THEN limits.global ELSE limits.perKey

\* A step in which bucket b is checked.
Checked(b) == tally'[b].n = tally[b].n + 1

InRange == \A b \in Buckets : Made(b) => 0 <= Tokens(b) /\ Tokens(b) <= Capacity(b) * Whole

\* C15: every bucket, the global one and each per-credential one, holds
\* between 0 and its capacity in tokens; its tokens grow only in a check,
\* by the refill for the time since the last one, and a check leaves at
\* least 0.
C15_TokensInRange ==
    /\ InRange
    /\ [][/\ InRange'
          /\ \A b \in Buckets :
                 /\ Made(b) /\ Tokens(b)' > Tokens(b) =>
                        /\ Checked(b)
                        /\ now > Last(b)
                        /\ Tokens(b)' <= Tokens(b) + (now - Last(b)) * Capacity(b)
                 /\ Made(b) /\ Tokens(b)' # Tokens(b) => Checked(b)
                 /\ Checked(b) => Made(b)' /\ Tokens(b)' >= 0
                 /\ ~Made(b) /\ Made(b)' => Checked(b)]_vars

\* A drained bucket was checked later, refilled in part, and rejected.
C15_Witness ==
    /\ global.last > 0
    /\ 0 < global.tokens /\ global.tokens < Whole
    /\ \E r \in Reqs : Answered(r) /\ out[r].status = 429 /\ LastStage(r) = "global"
    /\ \E k \in KeyIds : perKey[k].made

\* The request whose guard checks bucket b in this step.
Checks(r, b) ==
    /\ Checked(b)
    /\ gpc[r] = (IF b = "global" THEN "global" ELSE "auth")
    /\ gpc'[r] # gpc[r]
    /\ b # "global" => authz[r].key = b

\* What bucket b holds when a check at this instant has refilled it; a
\* key's bucket that is not there yet is made full.
Refilled(b) ==
    IF Made(b)
    THEN IF Tokens(b) + (now - Last(b)) * Capacity(b) <= Capacity(b) * Whole
         THEN Tokens(b) + (now - Last(b)) * Capacity(b)
         ELSE Capacity(b) * Whole
    ELSE Capacity(b) * Whole

\* C16: a check at time t refills the bucket to
\* min(capacity, tokens + (t - last) * capacity/60) and sets last = t; it
\* admits, and takes exactly one token, if and only if the refilled bucket
\* holds at least one token; otherwise it rejects, takes nothing, and
\* reports as retry_after the least whole number of seconds after which the
\* refill rate capacity/60 brings the bucket to one token.
C16_CheckRefillsThenDecides ==
    [][\A b \in Buckets : \A r \in Reqs :
           Checks(r, b) =>
               /\ Last(b)' = now
               /\ IF Refilled(b) >= Whole
                  THEN /\ Tokens(b)' = Refilled(b) - Whole
                       /\ gpc'[r] # "done" \/ out'[r].status # 429
                       /\ b \in spent'[r]
                  ELSE /\ Tokens(b)' = Refilled(b)
                       /\ gpc'[r] = "done" /\ out'[r].status = 429
                       /\ b \notin spent'[r]
                       /\ LET n == out'[r].retry_after
                              rate == Capacity(b) * TicksPerSecond
                          IN  /\ n >= 1
                              /\ Refilled(b) + n * rate >= Whole
                              /\ Refilled(b) + (n - 1) * rate < Whole]_vars

\* A check rejected a request when the bucket was a fraction of a second
\* short of a whole number of seconds from one token.
C16_Witness ==
    \E r \in Reqs :
        /\ Answered(r) /\ out[r].status = 429 /\ LastStage(r) = "global"
        /\ global.last = now
        /\ out[r].retry_after * limits.global * TicksPerSecond > Whole - global.tokens
        /\ global.tokens > 0

\* The request was let through by the rate limits: it was answered by the
\* admin gate, the body validation or the handler.
Admitted(r) == Answered(r) /\ out[r].status \notin {401, 429}

\* C17: a request is admitted only if the global bucket admitted it and, on
\* an authenticated route, the bucket of its credential admitted it as
\* well, the global check first: a request that comes when the global
\* bucket holds no whole token takes nothing from the bucket of its
\* credential and is answered 429.
C17_TwoTierAdmission ==
    \A r \in Reqs :
        /\ Admitted(r) =>
               /\ "global" \in spent[r]
               /\ NeedsAuth(route[r]) => authz[r].key \in spent[r]
        /\ spent[r] # {} => "global" \in spent[r]

\* C20: every request to every endpoint, GET /registry and GET /health
\* included, is checked against the global bucket before anything else and
\* has taken a global token once the check admitted it.
C20_EveryRequestChecksGlobal ==
    \A r \in Reqs :
        /\ trail[r] # <<>> => trail[r][1] = "global"
        /\ Answered(r) /\ ~(out[r].status = 429 /\ LastStage(r) = "global")
               => "global" \in spent[r]

\* The request fails authentication: no header, an unknown or inactive
\* key-id, or a wrong secret.
FailsAuth(r) == gpc[r] # "idle" /\ NeedsAuth(route[r]) /\ ~Verify(authz[r])

\* C18: a request that fails authentication takes a token from the global
\* bucket at most; in no step of it is a per-credential bucket made or
\* changed, not even that of the key-id it names.
C18_FailedAuthSparesKeyBuckets ==
    /\ [](\A r \in Reqs : FailsAuth(r) =>
              /\ spent[r] \subseteq {"global"}
              /\ \A i \in 1..Len(trail[r]) : trail[r][i] \in {"global", "auth"}
              /\ Answered(r) => out[r].status \in {401, 429})
    /\ [][\A r \in Reqs : FailsAuth(r) /\ gpc'[r] # gpc[r] =>
              /\ perKey' = perKey
              /\ \A k \in KeyIds : tally'[k] = tally[k]
              /\ HasGlobalGuard(route[r]) /\ gpc[r] = "auth"
                     => spent'[r] = {"global"}]_vars

\* Requests with a wrong secret for an active key and with an inactive key
\* were answered 401 after they took a global token, and neither key has a
\* bucket.
C18_Witness ==
    \E r, q \in Reqs :
        /\ Answered(r) /\ out[r].status = 401 /\ spent[r] = {"global"}
        /\ authz[r] = [key |-> "ku", secret |-> "bad"]
        /\ Answered(q) /\ out[q].status = 401 /\ spent[q] = {"global"}
        /\ authz[q].key = "ki"
        /\ ~perKey["ku"].made /\ ~perKey["ki"].made

\* C19: of the n checks made on a bucket while the clock stands still,
\* in whatever order the requests' guards come to make them, exactly
\* min(n, k) are admitted, k being the whole tokens the bucket held at the
\* first of them, and the bucket is left with k less the admitted ones.
C19_ExactlyMinAdmitted ==
    \A b \in Buckets :
        /\ tally[b].a = (IF tally[b].n <= tally[b].k THEN tally[b].n ELSE tally[b].k)
        /\ tally[b].n > 0 =>
               /\ Made(b) /\ Last(b) = now
               /\ Tokens(b) \div Whole = tally[b].k - tally[b].a

\* Two requests were at the global guard together with one token in the
\* bucket: the one that came second was checked first and admitted, the
\* other was rejected.
C19_Witness ==
    /\ tally["global"] = [k |-> 1, n |-> 2, a |-> 1]
    /\ \E r, q \in Reqs :
           /\ r < q
           /\ Answered(r) /\ out[r].status = 429 /\ LastStage(r) = "global"
           /\ "global" \in spent[q]

\* The table of the error model: kind, HTTP status, code.
ErrorTable ==
    [BadRequest      |-> [status |-> 400, code |-> "BAD_REQUEST"],
     Unauthorized    |-> [status |-> 401, code |-> "UNAUTHORIZED"],
     Forbidden       |-> [status |-> 403, code |-> "FORBIDDEN"],
     NotFound        |-> [status |-> 404, code |-> "NOT_FOUND"],
     NotYetIndexed   |-> [status |-> 202, code |-> "NOT_YET_INDEXED"],
     TooManyRequests |-> [status |-> 429, code |-> "TOO_MANY_REQUESTS"],
     Internal        |-> [status |-> 500, code |-> "INTERNAL_ERROR"]]

\* C22: the responder renders an error value of each of the seven kinds
\* with the status and the code of its row of the table, which no other
\* row has, and with the message the value carries.
C22_SevenKindsToFixedPairs ==
    /\ called = "respond_to" =>
           /\ arg.kind \in DOMAIN ErrorTable
           /\ ret.status = ErrorTable[arg.kind].status
           /\ ret.code = ErrorTable[arg.kind].code
           /\ ret.message = arg.msg
    /\ \A j, k \in DOMAIN ErrorTable :
           j # k => /\ ErrorTable[j].status # ErrorTable[k].status
                    /\ ErrorTable[j].code # ErrorTable[k].code

\* The credentials that do not verify: no header, a key-id the store does
\* not have, a deactivated key with its secret, a key with a wrong secret.
FailingHeaders == {h \in AuthHeaders : ~Verify(h)}

Leaked(message) == {i \in 1..Len(message) : message[i] \in ErrorTexts}

\* C23: the message of a 500 response is a string the gateway fixed: no
\* piece of it is the text of the underlying engine, registry or worker
\* error, so the body is the same whatever that text is.
C23_InternalMessagesFixed ==
    ret.status = 500 => Leaked(ret.message) = {}

\* The calls a deployment makes are the first ones of its handler's
\* sequence.
CallsArePrefix(steps) == IsPrefix(did, steps)

\* C30: a deployment makes its calls in the handler's order: input token,
\* output token, the order's fields, the deposit on the output-token key,
\* the vault ids the request has, then the deployment args. The first call
\* the engine fails is the last one made; a failed assignment is answered
\* 400, a failed GUI creation or args request 500.
C30_DeployStepsInOrder ==
    called \in {"process_deploy_dca", "process_deploy_solver"} =>
        LET steps == IF called = "process_deploy_dca"
                     THEN DcaSteps(arg.req) ELSE SolverSteps(arg.req)
            F == {i \in 1..Len(steps) : steps[i] \in arg.fails}
        IN  /\ CallsArePrefix(steps)
            /\ \A i \in 1..Len(steps) :
                   /\ steps[i].call = "set_select_token" =>
                          \A j \in 1..Len(steps) :
                              steps[j].call \in {"set_field_value", "set_deposit",
                                                 "set_vault_id"} => i < j
                   /\ steps[i].call = "set_field_value" =>
                          \A j \in 1..Len(steps) :
                              steps[j].call \in {"set_deposit", "set_vault_id"} => i < j
                   /\ steps[i].call = "set_deposit" =>
                          /\ steps[i].key = "output-token"
                          /\ \A j \in 1..Len(steps) :
                                 steps[j].call = "set_vault_id" => i < j
                   /\ steps[i].call = "set_vault_id" /\ steps[i].key = "input-token" =>
                          \A j \in 1..Len(steps) :
                              steps[j].call = "set_vault_id"
                                  /\ steps[j].key = "output-token" => i < j
            /\ steps[1].call = "get_gui" /\ steps[Len(steps)] = GetArgs
            /\ steps[2].key = "input-token" /\ steps[3].key = "output-token"
            /\ \A k \in {"input-token", "output-token"} :
                   (\E i \in 1..Len(steps) :
                        steps[i].call = "set_vault_id" /\ steps[i].key = k)
                   <=> (IF k = "input-token" THEN arg.req.input_vault_id
                                             ELSE arg.req.output_vault_id)
            /\ IF F = {}
               THEN did = steps /\ ret.status \in {200, 500}
               ELSE /\ Len(did) \in F
                    /\ \A i \in F : Len(did) <= i
                    /\ ret.status = IF did[Len(did)].call \in
                                          {"get_gui", "get_deployment_transaction_args"}
                                    THEN 500 ELSE 400

\* A deployment with an input vault id stopped at the deposit, which the
\* engine failed, and was answered 400; the engine would have failed the
\* args request too.
C30_Witness ==
    /\ called \in {"process_deploy_dca", "process_deploy_solver"}
    /\ ret.status = 400
    /\ did[Len(did)].call = "set_deposit"
    /\ Cardinality(arg.fails) = 2
    /\ GetArgs \in arg.fails
    /\ arg.req.input_vault_id

\* The quote handler ran and got as far as the simulation.
Simulated ==
    /\ called = "process_swap_quote"
    /\ Len(did) >= 3
    /\ did[3].call = "simulate_buy_over_candidates"

\* The amount the request asks for, when it parses.
Requested == parse(arg.output_amount).val

\* What the legs before leg i gave.
GivenBefore(legs, i) == Sum(SubSeq(legs, 1, i - 1), "output")

RECURSIVE SumMaxOutput(_)
SumMaxOutput(cands) ==
    IF cands = <<>> THEN 0 ELSE Head(cands).max_output + SumMaxOutput(Tail(cands))

\* The orders in which a list of n candidates can be given.
Orderings(n) == {p \in [1..n -> 1..n] : \A i, j \in 1..n : p[i] = p[j] => i = j}

\* C24: with an amount R that parses and a candidate list that is not
\* empty, the quote takes the candidates cheapest first, whatever the order
\* they are given in, from each the smaller of what is still wanted and its
\* max_output; the estimated input is the sum of output times ratio over
\* the legs, the output filled is min(R, sum of max_output), a partial fill
\* is still a 200, and the ratio returned is total input over total output.
C24_QuoteWalksCheapestFirst ==
    called = "process_swap_quote" /\ arg.orders = "some" /\ ~arg.candidates_fail
        /\ arg.candidates # <<>> /\ parse(arg.output_amount).ok =>
        /\ Simulated
        /\ LET cands == arg.candidates
               legs == did[3].legs
               R == Requested
               filled == Sum(legs, "output")
               paid == Sum(legs, "input")
           IN  /\ \A i, j \in 1..Len(legs) :
                      i < j => /\ legs[i].candidate # legs[j].candidate
                               /\ cands[legs[i].candidate].ratio
                                      <= cands[legs[j].candidate].ratio
               /\ \A i \in 1..Len(legs) : \A k \in 1..Len(cands) :
                      (\A j \in 1..i : legs[j].candidate # k)
                          /\ cands[k].max_output > 0
                          => cands[legs[i].candidate].ratio <= cands[k].ratio
               /\ \A i \in 1..Len(legs) :
                      /\ legs[i].output > 0
                      /\ legs[i].output = Min(R - GivenBefore(legs, i),
                                              cands[legs[i].candidate].max_output)
                      /\ legs[i].input = legs[i].output * cands[legs[i].candidate].ratio
               /\ filled = Min(R, SumMaxOutput(cands))
               /\ did[3].total_output = filled /\ did[3].total_input = paid
               /\ \A p \in Orderings(Len(cands)) :
                      LET other == simulate_buy_over_candidates(
                                       [i \in 1..Len(cands) |-> cands[p[i]]], R)
                      IN  /\ other.total_output = filled
                          /\ other.total_input = paid
               /\ IF filled = 0 THEN ret.status = 404
                  ELSE /\ ret.status = 200
                       /\ ret.val.estimated_input = paid
                       /\ ret.val.estimated_io_ratio.num * filled
                              = ret.val.estimated_io_ratio.den * paid
                       /\ Gcd(ret.val.estimated_io_ratio.num,
                              ret.val.estimated_io_ratio.den) = 1

\* A quote of two legs, the dearer candidate given first, that fills less
\* than was asked for.
C24_Witness ==
    /\ Simulated
    /\ ret.status = 200
    /\ Len(did[3].legs) = 2
    /\ did[3].legs[1].candidate > did[3].legs[2].candidate
    /\ arg.candidates[did[3].legs[1].candidate].ratio
           < arg.candidates[did[3].legs[2].candidate].ratio
    /\ did[3].total_output < Requested
    /\ ret.val.estimated_io_ratio.den > 1

\* C25: a swap quote request whose outputAmount does not parse is answered
\* 400 BAD_REQUEST, whatever orders and candidates there are.
C25_UnparsableAmountIs400 ==
    called = "process_swap_quote" /\ ~parse(arg.output_amount).ok =>
        ret.status = 400 /\ ret.code = "BAD_REQUEST"

\* C26: the quote is a 404 when there is no active order of the pair, when
\* no candidate was built, and when the simulation fills no leg; a 200 has
\* at least one leg, and the ratio is never computed with a total output of
\* zero.
C26_NoLiquidityIs404 ==
    called = "process_swap_quote" =>
        /\ arg.orders = "none" => ret.status = 404
        /\ arg.orders = "some" /\ ~arg.candidates_fail /\ arg.candidates = <<>>
               => ret.status = 404
        /\ Simulated /\ did[3].legs = <<>> => ret.status = 404
        /\ ret.status = 404 => ret.code = "NOT_FOUND"
        /\ ret.status = 200 =>
               /\ Simulated
               /\ did[3].legs # <<>>
               /\ did[3].total_output > 0
        /\ \A i \in 1..Len(did) : did[i].call = "div" => did[i].by # 0

\* The simulation ran on candidates that all have nothing to give, for an
\* amount above zero, and the answer was 404.
C26_Witness ==
    /\ Simulated
    /\ did[3].legs = <<>>
    /\ Requested > 0
    /\ Len(arg.candidates) = 2
    /\ ret.status = 404

\* C27: an engine error of the calldata request is answered by its kind:
\* NoLiquidity and InsufficientLiquidity 404; SameTokenPair,
\* NonPositiveAmount, NegativePriceCap and the parse failures 400; every
\* other kind 500 with the message 'failed to generate calldata'.
C27_CalldataErrorsByKind ==
    called = "process_swap_calldata" /\ arg.state = "error" =>
        LET k == arg.error.kind
        IN  /\ k \in {"NoLiquidity", "InsufficientLiquidity"} =>
                   ret.status = 404 /\ ret.code = "NOT_FOUND"
            /\ k \in {"SameTokenPair", "NonPositiveAmount", "NegativePriceCap",
                       "FromHexError", "Float"} =>
                   ret.status = 400 /\ ret.code = "BAD_REQUEST"
            /\ k \notin {"NoLiquidity", "InsufficientLiquidity", "SameTokenPair",
                          "NonPositiveAmount", "NegativePriceCap", "FromHexError",
                          "Float"} =>
                   /\ ret.status = 500 /\ ret.code = "INTERNAL_ERROR"
                   /\ ret.message = <<"failed to generate calldata">>

\* An engine error of a kind the function does not name was answered 500.
C27_Witness ==
    /\ called = "process_swap_calldata"
    /\ arg.state = "error"
    /\ arg.error.kind = "TradesIndexingTimeout"
    /\ ret.status = 500
    /\ did[1].mode = "BuyUpTo"

\* The order the lookup of the handler that ran found.
Found == arg.orders.val[1]

\* C28: GET /v1/order/{hash} answers a failed lookup with Internal, an
\* absent order with 404, an order without a first input or output vault
\* with Internal. A failed quote fetch, an empty quote list and a first
\* quote without data give the io_ratio "-", a failed trades fetch the
\* empty trade list; none of them makes the response an error.
C28_GetOrderDegradesQuietly ==
    called = "process_get_order" =>
        /\ ~arg.orders.ok => ret.status = 500
        /\ arg.orders.ok /\ arg.orders.val = <<>> => ret.status = 404
        /\ arg.orders.ok /\ arg.orders.val # <<>> =>
               IF Found.inputs = <<>> \/ Found.outputs = <<>>
               THEN ret.status = 500 /\ ret.code = "INTERNAL_ERROR"
               ELSE /\ ret.status = 200
                    /\ (\/ ~arg.quotes.ok
                         \/ arg.quotes.val = <<>>
                         \/ ~arg.quotes.val[1].data)
                           => /\ ret.val.io_ratio = "-"
                              /\ ret.val.order_details.io_ratio = "-"
                    /\ arg.quotes.ok /\ arg.quotes.val # <<>> /\ arg.quotes.val[1].data
                           => ret.val.io_ratio = arg.quotes.val[1].formatted_ratio
                    /\ ~arg.trades.ok => ret.val.trades = <<>>
                    /\ arg.trades.ok => ret.val.trades = arg.trades.val

\* An order with its vaults whose quote fetch and trades fetch both failed
\* was answered 200.
C28_Witness ==
    /\ called = "process_get_order"
    /\ ~arg.quotes.ok /\ ~arg.trades.ok
    /\ ret.status = 200
    /\ ret.val.io_ratio = "-" /\ ret.val.trades = <<>>

\* The vaults of an order with a formatted balance above zero, inputs
\* first.
PositiveVaults(order) ==
    SelectSeq(order.inputs \o order.outputs,
              LAMBDA v : v.formatted_balance \in DOMAIN ParsedBalance
                             /\ ParsedBalance[v.formatted_balance] > 0)

\* C29: a cancel that succeeds has exactly one transaction, to the order's
\* orderbook, with the remove calldata and value 0; vaultsToWithdraw is the
\* length of tokensReturned and the number of vaults with a positive
\* formatted balance, inputs before outputs. An absent order is a 404
\* before any calldata is requested; a calldata failure is Internal.
C29_CancelSummary ==
    called = "process_cancel_order" =>
        /\ arg.orders.ok /\ arg.orders.val = <<>> =>
               /\ ret.status = 404
               /\ \A i \in 1..Len(did) : did[i].call # "get_remove_calldata"
        /\ arg.orders.ok /\ arg.orders.val # <<>> /\ ~arg.calldata.ok =>
               ret.status = 500 /\ ret.code = "INTERNAL_ERROR"
        /\ ret.status = 200 <=>
               arg.orders.ok /\ arg.orders.val # <<>> /\ arg.calldata.ok
        /\ ret.status = 200 =>
               /\ ret.val.transactions =
                      <<[to |-> Found.orderbook, data |-> arg.calldata.val, value |-> 0]>>
               /\ ret.val.summary.vaults_to_withdraw
                      = Len(ret.val.summary.tokens_returned)
               /\ ret.val.summary.vaults_to_withdraw = Len(PositiveVaults(Found))
               /\ \A i \in 1..Len(PositiveVaults(Found)) :
                      /\ ret.val.summary.tokens_returned[i].token
                             = PositiveVaults(Found)[i].token
                      /\ ret.val.summary.tokens_returned[i].amount
                             = PositiveVaults(Found)[i].formatted_balance

\* A cancel of an order with two input and two output vaults, of which a
\* positive input and a positive output are returned, in that order, and an
\* empty input and an output whose balance does not parse are not.
C29_Witness ==
    /\ called = "process_cancel_order"
    /\ ret.status = 200
    /\ Len(Found.inputs) = 2 /\ Len(Found.outputs) = 2
    /\ ret.val.summary.vaults_to_withdraw = 2
    /\ ret.val.summary.tokens_returned[1].token = "input"
    /\ ret.val.summary.tokens_returned[2].token = "output"
    /\ \E i \in 1..2 : Found.inputs[i].formatted_balance = "0.000000"
    /\ \E i \in 1..2 : Found.outputs[i].formatted_balance = "n/a"


\* The first orderbook whose query fails, 0 when every orderbook answers.
FirstFailure(answers) ==
    IF \A i \in 1..Len(answers) : answers[i].state = "trades" THEN 0
    ELSE CHOOSE i \in 1..Len(answers) :
             /\ answers[i].state # "trades"
             /\ \A j \in 1..(i - 1) : answers[j].state = "trades"

\* The trades of the first n orderbooks, in the orderbooks' order.
RECURSIVE Merged(_, _)
Merged(answers, n) ==
    IF n = 0 THEN <<>> ELSE Merged(answers, n - 1) \o answers[n].trades

\* The orderbooks asked for the transaction's trades, in the order asked.
AskedOrderbooks ==
    LET at == {i \in 1..Len(did) : did[i].call = "get_trades_for_transaction"}
    IN  [n \in 1..Cardinality(at) |->
            did[CHOOSE i \in at : Cardinality({j \in at : j <= i}) = n].orderbook]

TxTrades == Merged(arg.orderbooks.val, Len(arg.orderbooks.val))

\* The order hashes the trades reference.
Referenced == {TxTrades[i].order_hash : i \in 1..Len(TxTrades)}

\* How often the order of a hash was looked up.
LookedUp(hash) ==
    Cardinality({i \in 1..Len(did) :
                    did[i].call = "get_orders_by_hash" /\ did[i].hash = hash})

\* C37: when trades-by-tx has the transaction's trades, it looks up the
\* order of each hash they reference once, however many trades reference
\* it, and of no other hash. Every entry of a 200 response has its trade's
\* hash and the owner of the first order found for that hash, one entry for
\* each trade in the trades' order. When a lookup of a referenced hash
\* fails or finds no order, the response is Internal and has no trade list.
C37_OneLookupForEachHash ==
    /\ called = "process_get_trades_by_tx"
    /\ arg.orderbooks.ok
    /\ FirstFailure(arg.orderbooks.val) = 0
    /\ TxTrades # <<>>
    /\ arg.fault \notin {"block_number", "timestamp"}
    => /\ \A h \in OrderHashes : LookedUp(h) = IF h \in Referenced THEN 1 ELSE 0
       /\ (\E h \in Referenced : ~arg.lookups[h].ok \/ arg.lookups[h].val = <<>>) =>
              ret.status = 500 /\ ret.code = "INTERNAL_ERROR" /\ ret.val = <<>>
       /\ ret.status \in {200, 500}
       /\ ret.status = 200 =>
              /\ Len(ret.val.trades) = Len(TxTrades)
              /\ \A i \in 1..Len(TxTrades) :
                     /\ ret.val.trades[i].order_hash = TxTrades[i].order_hash
                     /\ ret.val.trades[i].order_owner =
                            arg.lookups[TxTrades[i].order_hash].val[1].owner

\* Two trades of one order: one lookup, two entries with the order's owner.
C37_Witness ==
    /\ called = "process_get_trades_by_tx"
    /\ ret.status = 200
    /\ Len(ret.val.trades) = 2
    /\ ret.val.trades[1].order_hash = ret.val.trades[2].order_hash
    /\ ret.val.trades[1].order_owner = "a2"
    /\ ret.val.trades[2].order_owner = "a2"
    /\ Len(did) = 4


\* The page and the page size of a trades-by-address request, absent or
\* given.
AskedPage == IF IsSome(arg.params.page) THEN arg.params.page[1] ELSE 1

AskedPageSize == IF IsSome(arg.params.page_size) THEN arg.params.page_size[1] ELSE 20

\* The sum of the orderbooks' counts of the owner's trades.
RECURSIVE SumTotals(_)
SumTotals(answers) ==
    IF answers = <<>> THEN 0 ELSE Head(answers).total + SumTotals(Tail(answers))

\* n is the number of pages of `total` entries, `size` to the page.
IsCeiling(n, total, size) == (n - 1) * size < total /\ total <= n * size

\* C32: trades-by-address asks the engine for page 1 when page is absent
\* and with page_size 20 when page_size is absent. It answers 200 only for
\* page >= 1 and page_size in [1, 100], and a query outside them reaches no
\* orderbook. In a 200, total_trades is the sum of the orderbooks' totals,
\* total_pages is ceil(total_trades / page_size) and has_more is
\* page < total_pages; with no trades total_pages is 0 and has_more false.
C32_PaginationOfTradesByAddress ==
    called = "get_trades_by_address" =>
        /\ \A i \in 1..Len(did) :
               did[i].call = "get_trades_for_owner" =>
                   did[i].page = AskedPage /\ did[i].page_size = AskedPageSize
        /\ ~(AskedPage >= 1 /\ AskedPageSize >= 1 /\ AskedPageSize <= 100) =>
               ret.status # 200 /\ did = <<>>
        /\ ret.status = 200 =>
               LET p == ret.val.pagination
               IN  /\ p.page = AskedPage /\ p.page_size = AskedPageSize
                   /\ p.page >= 1 /\ p.page_size >= 1 /\ p.page_size <= 100
                   /\ p.total_trades = SumTotals(arg.orderbooks.val)
                   /\ IsCeiling(p.total_pages, p.total_trades, p.page_size)
                   /\ p.has_more = (p.page < p.total_pages)
                   /\ p.total_trades = 0 => p.total_pages = 0 /\ ~p.has_more

\* Five trades in two orderbooks, two to the page, page absent: page 1 of
\* 3, and there is more.
C32_Witness ==
    /\ called = "get_trades_by_address"
    /\ ret.status = 200
    /\ ~IsSome(arg.params.page)
    /\ arg.params.page_size = Some(2)
    /\ Len(arg.orderbooks.val) = 2
    /\ ret.val.pagination.page = 1
    /\ ret.val.pagination.total_trades = 5
    /\ ret.val.pagination.total_pages = 3
    /\ ret.val.pagination.has_more

\* C40: the trades of a trades-by-address response are at most page_size.
C40_AtMostPageSizeTrades ==
    called = "get_trades_by_address" /\ ret.status = 200 =>
        Len(ret.val.trades) <= ret.val.pagination.page_size


\* The number a decimal string writes.
RECURSIVE FromDecimal(_)
FromDecimal(digits) ==
    IF digits = <<>> THEN 0
    ELSE 10 * FromDecimal(SubSeq(digits, 1, Len(digits) - 1))
         + (CHOOSE k \in 0..9 : Digits[k + 1] = digits[Len(digits)])

\* An approval of the args has calldata that is no approve call.
Undecodable(approvals) ==
    \E i \in 1..Len(approvals) : approvals[i].calldata.selector # "approve"

\* C38: the deploy response has to = the args' orderbook address, data =
\* their deployment calldata, value = 0 and one approval for each approval
\* of the args, in their order, with the approval's token, the orderbook
\* address as spender (whatever spender the calldata names) and as amount
\* the decimal string of the amount in its calldata. If one approval's
\* calldata does not decode, the result is Internal and holds no approval;
\* the deploy handlers then answer 500.
C38_DeployResponseFromArgs ==
    /\ called = "map_deployment_to_response" =>
           /\ Undecodable(arg.approvals) =>
                  /\ ~ret.val.ok
                  /\ ret.val.err = Internal(Lit("failed to decode approval calldata"))
           /\ ~Undecodable(arg.approvals) =>
                  /\ ret.val.ok
                  /\ ret.val.val.to = arg.orderbook_address
                  /\ ret.val.val.data = arg.deployment_calldata
                  /\ ret.val.val.value = 0
                  /\ Len(ret.val.val.approvals) = Len(arg.approvals)
                  /\ \A i \in 1..Len(arg.approvals) :
                         LET approval == ret.val.val.approvals[i]
                         IN  /\ approval.token = arg.approvals[i].token
                             /\ approval.spender = arg.orderbook_address
                             /\ approval.amount # <<>>
                             /\ Len(approval.amount) > 1 => approval.amount[1] # "0"
                             /\ FromDecimal(approval.amount)
                                    = arg.approvals[i].calldata.amount
    /\ called \in {"process_deploy_dca", "process_deploy_solver"} /\ arg.fails = {} =>
           /\ Undecodable(arg.approvals) =>
                  ret.status = 500 /\ ret.code = "INTERNAL_ERROR" /\ ret.val = <<>>
           /\ ~Undecodable(arg.approvals) =>
                  /\ ret.status = 200
                  /\ ret.val.value = 0
                  /\ Len(ret.val.approvals) = Len(arg.approvals)
                  /\ \A i \in 1..Len(arg.approvals) :
                         ret.val.approvals[i].spender = ret.val.to

\* Two approvals, the second for another spender than the orderbook: both
\* are in the response, in order, with the orderbook as spender and the
\* amounts 500000 and 7.
C38_Witness ==
    /\ called = "map_deployment_to_response"
    /\ ret.val.ok
    /\ Len(ret.val.val.approvals) = 2
    /\ arg.approvals[2].calldata.spender = "another"
    /\ ret.val.val.approvals[2].spender = "orderbook"
    /\ ret.val.val.approvals[1].amount = <<"5", "0", "0", "0", "0", "0">>
    /\ ret.val.val.approvals[2].amount = <<"7">>


\* C39: a swap-calldata 200 has one of two shapes. When the engine's result
\* names a needed approval: data is empty and approvals has one entry, the
\* engine's, whose spender is the response's `to`. When it holds the
\* take-orders payload: data is that calldata, `to` the orderbook and
\* approvals is empty. A result with neither is answered Internal.
C39_TwoShapesOfCalldata ==
    called = "process_swap_calldata" /\ arg.state = "result" =>
        /\ IsSome(arg.approval_info) =>
               /\ ret.status = 200
               /\ ret.val.data = <<>>
               /\ Len(ret.val.approvals) = 1
               /\ ret.val.approvals[1].spender = ret.val.to
               /\ ret.val.to = arg.approval_info[1].spender
               /\ ret.val.approvals[1].approval_data = arg.approval_info[1].calldata
        /\ ~IsSome(arg.approval_info) /\ IsSome(arg.take_orders_info) /\ ret.status = 200 =>
               /\ ret.val.data = arg.take_orders_info[1].calldata
               /\ ret.val.data # <<>>
               /\ ret.val.to = arg.take_orders_info[1].orderbook
               /\ ret.val.approvals = <<>>
        /\ ~IsSome(arg.approval_info) /\ IsSome(arg.take_orders_info) =>
               ret.status = 200 <=> arg.take_orders_info[1].formats
        /\ ~IsSome(arg.approval_info) /\ ~IsSome(arg.take_orders_info) =>
               /\ ret.status = 500 /\ ret.code = "INTERNAL_ERROR"
               /\ ret.message = <<"unexpected calldata result state">>
        /\ ret.status \in {200, 500}

\* The engine named an approval for the spender "router": the response is
\* the approval shape, to the router.
C39_Witness ==
    /\ called = "process_swap_calldata"
    /\ arg.state = "result"
    /\ IsSome(arg.approval_info)
    /\ ret.status = 200
    /\ ret.val.to = "router"
    /\ ret.val.data = <<>>
    /\ Len(ret.val.approvals) = 1


\* C34: whenever no PUT holds the exclusive guard, the settings table's
\* registry_url is the URL of the provider in the cell.
C34_PersistedUrlIsCellUrl ==
    writer = {} => settings = registry_url(cell)

\* A PUT has a step left to take before it holds or waits for the lock.
BeforeLock(p) == pc[p] \in {"idle", "loading", "done", "cancelled"}

\* C35: a PUT loads its provider before it asks for the exclusive guard.
\* While it awaits the load it neither holds the guard nor waits for it,
\* and when no PUT is past its load the lock is free of writers and nobody
\* queues, so that a GET answered meanwhile reads the provider that was in
\* the cell and leaves it there. Whoever holds the exclusive guard is a PUT
\* whose load succeeded, and holds it for the persist and the overwrite.
C35_LoadsBeforeLocking ==
    /\ [](\A p \in Reqs : pc[p] = "loading" => p \notin writer /\ ~InQueue(p))
    /\ []((\A p \in Puts : BeforeLock(p)) => writer = {} /\ waitq = <<>>)
    /\ [](\A p \in writer :
              /\ kind[p] = "put"
              /\ pc[p] \in {"lock", "persisting", "writing"}
              /\ chan[p].tag = "ok" /\ chan[p].reg = body[p])
    /\ [][\A g \in Reqs :
              (/\ kind[g] = "get" /\ pc[g] = "lock" /\ pc'[g] = "done"
               /\ \E p \in Puts : pc[p] = "loading") =>
                  /\ resp'[g].status = 200
                  /\ resp'[g].url = registry_url(cell)
                  /\ cell' = cell]_vars

\* While a PUT's load is running on its worker, a GET that came after the
\* PUT was answered with the URL the server started with.
C35_Witness ==
    \E p \in Puts : \E g \in Gets :
        /\ p < g
        /\ pc[p] = "loading" /\ wk[p] = "running" /\ body[p] \in GoodUrls
        /\ pc[g] = "done" /\ resp[g].status = 200 /\ resp[g].url = InitUrl
        /\ writer = {} /\ waitq = <<>>

\* A worker is inside a call that never returns.
Hung == \E q \in Reqs : wk[q] = "hung"

StartupUrl(in) ==
    IF IsSome(in.stored) THEN in.stored
    ELSE IF in.config_url # "" THEN Some(in.config_url)
    ELSE None

\* C33: on serve startup the registry URL is the persisted registry_url
\* when one is stored, otherwise the config file's value, which is then in
\* the settings store; the server is launched only with the provider loaded
\* from that URL, and when no URL is available or the load fails the
\* process exits with code 1 and Rocket is never launched.
C33_StartupRegistryUrl ==
    called = "main" =>
        LET url == StartupUrl(arg)
            started == ret.val
            launched == \E i \in 1..Len(did) : did[i] = "launch"
        IN  /\ started.registry_url = url
            /\ IsSome(url) => started.row = url
            /\ launched =>
                   /\ IsSome(url) /\ load(url[1]).ok
                   /\ started.cell = Some(load(url[1]).val)
                   /\ started.exit = None
            /\ (~IsSome(url) \/ ~load(url[1]).ok) =>
                   /\ started.exit = Some(1)
                   /\ ~launched
                   /\ started.cell = None

====
